---------------------------- MODULE Spec2Model ----------------------------
(***************************************************************************)
(* A model of the operation log (op integrate, undo, redo, op revert), of   *)
(* the secure per-repo config store, of the workspace index store, of      *)
(* bookmark advance, of the arrange command, of the sorting of ref lists   *)
(* and of the merged tree builder of the jj repository slice.              *)
(*                                                                         *)
(* Commits are numbered in the order they are written; 0 is the root       *)
(* commit.  Operations are numbered in the order they are written; the     *)
(* first operation of opStore is the root operation.                      *)
(***************************************************************************)
EXTENDS Integers, Sequences, FiniteSets, TLC

VARIABLES
    commitStore,   \* Seq of [change, parent, predecessor]: the commit backend
    opStore,       \* Seq of [parents, view, desc, arg]: the operation store
    opHeads,       \* the operation-heads store: a set of operation ids
    uiStatus,      \* what the last command wrote to ui.status() / its error
    lastCmd,       \* the last command that ran: [name, arg, wrote (commits written)]
    repoDirs,      \* the repo directories: path -> [kind, target, config_id, legacy, writable]
    configDirs,    \* the config root: config id -> [exists, metadata, config]
    instance,      \* the SecureConfig in use: [repo_dir, cache]
    loaded,        \* what the last call on the instance returned
    writer,        \* the call that is inside generate_config: [pc, d, config_id, ..]
    wsStore,       \* <repo>/workspace_store: [dir, index, lock]
    wsProcs,       \* the processes using the workspace store: process -> [pc, op, ..]
    wsApplied,     \* the mutations of the index, in the order they were written
    bmRepo,        \* bookmark advance: [view (local bookmarks), ops (operations appended)]
    bmLast,        \* the last bookmark advance: its arguments, the view before, its output
    arrange,       \* the arrange command: [pc, state, mut_repo, ..]
    refList,       \* the ref list being sorted: [pc, input, sort_keys, commits, todo, order]
    treeBuilder,   \* the MergedTreeBuilder in use: [pc, base_tree, overrides, new_tree_ids, tree]
    wcFile,        \* the conflicted file written to the working copy: [pc, sides, conflict_marker_len]
    progress       \* the Progress of a snapshot and the clock: [pc, now, next_display_time, ..]

opVars == <<commitStore, opStore, opHeads, uiStatus, lastCmd>>
cfgVars == <<repoDirs, configDirs, instance, loaded, writer>>
wsVars == <<wsStore, wsProcs, wsApplied>>
bmVars == <<bmRepo, bmLast>>
uiVars == <<wcFile, progress>>
cliVars == <<bmRepo, bmLast, arrange, refList, treeBuilder, wcFile, progress>>
vars == <<commitStore, opStore, opHeads, uiStatus, lastCmd, repoDirs, configDirs, instance, loaded,
          writer, wsStore, wsProcs, wsApplied, bmRepo, bmLast, arrange, refList, treeBuilder,
          wcFile, progress>>

\* ------------------------------------------------------------------ bounds

MaxOps == 6
MaxCommits == 6

\* --------------------------------------------------------------- utilities

Max(S) == CHOOSE x \in S : \A y \in S : y <= x
Min(S) == CHOOSE x \in S : \A y \in S : x <= y

RECURSIVE SetToSeq(_)
\* the elements of a set of numbers in ascending order
SetToSeq(S) ==
    IF S = {} THEN <<>> ELSE <<Min(S)>> \o SetToSeq(S \ {Min(S)})

SeqToSet(s) == {s[i] : i \in 1..Len(s)}

\* ----------------------------------------------------------- commit graph

RECURSIVE Ancestors(_, _)
\* a commit and its ancestors, the root commit 0 left out
Ancestors(store, c) ==
    IF c = 0 THEN {} ELSE {c} \cup Ancestors(store, store[c].parent)

\* the commits a view with these heads shows
Visible(store, heads) == UNION {Ancestors(store, h) : h \in heads}

\* a head set never holds an ancestor of another head
HeadsOf(store, S) ==
    {c \in S : \A d \in S \ {c} : c \notin Ancestors(store, d)}

NextChangeId(store) ==
    IF Len(store) = 0 THEN 1 ELSE Max({store[i].change : i \in 1..Len(store)}) + 1

\* ----------------------------------------------- mutable repo (transaction)
\* A transaction is [store, heads, mapping, parents]: the commit store with
\* the commits written so far, the view's heads, the recorded rewrites (a set
\* of <<old, new>> pairs; an old commit with two new ones is divergent) and
\* the parent operations of the operation being built.

Keys(mapping) == {p[1] : p \in mapping}
Targets(mapping, c) == {p[2] : p \in {q \in mapping : q[1] = c}}
DivergentKeys(mapping) == {c \in Keys(mapping) : Cardinality(Targets(mapping, c)) > 1}

\* the choices open where a commit was rewritten divergently
Picks(mapping) ==
    {f \in [DivergentKeys(mapping) -> UNION {Targets(mapping, c) : c \in Keys(mapping)}] :
        \A c \in DivergentKeys(mapping) : f[c] \in Targets(mapping, c)}

start_repo_transaction(store, op, opId) ==
    [store |-> store, heads |-> op.view, mapping |-> {}, parents |-> <<opId>>]

RECURSIVE new_parent(_, _, _)
\* the parent translated through the rewrites
new_parent(mapping, pick, p) ==
    IF p \notin Keys(mapping) THEN p
    ELSE IF p \in DivergentKeys(mapping) THEN new_parent(mapping, pick, pick[p])
    ELSE new_parent(mapping, pick, CHOOSE t \in Targets(mapping, p) : TRUE)

\* CommitRewriter: the commit with its parent replaced, change id kept; the
\* new commit names the old one as its predecessor
rewrite_commit(tx, c, parent) ==
    [tx EXCEPT !.store = Append(@, [change |-> tx.store[c].change, parent |-> parent,
                                    predecessor |-> c]),
               !.mapping = @ \cup {<<c, Len(tx.store) + 1>>}]

RECURSIVE rebase_loop(_, _, _)
rebase_loop(tx, todo, pick) ==
    IF todo = {} THEN tx
    ELSE LET c == Min(todo)
             np == new_parent(tx.mapping, pick, tx.store[c].parent)
         IN  IF np = tx.store[c].parent
             THEN rebase_loop(tx, todo \ {c}, pick)
             ELSE rebase_loop(rewrite_commit(tx, c, np), todo \ {c}, pick)

\* the visible commits below which a commit was rewritten
Descendants(tx) ==
    {c \in Visible(tx.store, tx.heads) \ Keys(tx.mapping) :
        Ancestors(tx.store, c) \cap Keys(tx.mapping) # {}}

\* rebase_descendants: [tx, num_rebased]
rebase_descendants(tx, pick) ==
    LET done == rebase_loop(tx, Descendants(tx), pick)
        all  == (tx.heads \cup {p[2] : p \in done.mapping}) \ Keys(done.mapping)
    IN  [tx |-> [done EXCEPT !.heads = HeadsOf(done.store, all), !.mapping = {}],
         num_rebased |-> Len(done.store) - Len(tx.store)]

\* ------------------------------------------------------- operation graph

RECURSIVE OpAncestors(_, _)
\* an operation and its ancestors
OpAncestors(ops, o) ==
    {o} \cup UNION {OpAncestors(ops, ops[o].parents[i]) : i \in 1..Len(ops[o].parents)}

\* referenced by the operation log: a head or an ancestor of one
Referenced(ops, heads) == UNION {OpAncestors(ops, h) : h \in heads}

closest_common_ancestor(ops, as, b) ==
    Max({c \in OpAncestors(ops, b) : \A a \in as : c \in OpAncestors(ops, a)})

\* the rewrites between two views: a commit that left the view and whose
\* change is among the commits that entered it
record_rewrites(store, old_heads, new_heads) ==
    LET removed == Visible(store, old_heads) \ Visible(store, new_heads)
        added   == Visible(store, new_heads) \ Visible(store, old_heads)
    IN  {p \in removed \X added : store[p[1]].change = store[p[2]].change}

merge_operation(tx, ops, other) ==
    LET base == ops[closest_common_ancestor(ops, SeqToSet(tx.parents), other)].view
        view == ops[other].view
    IN  [tx EXCEPT !.mapping = @ \cup record_rewrites(tx.store, base, tx.heads)
                               \cup record_rewrites(tx.store, base, view),
                   !.heads = @ \cup (view \ base),
                   !.parents = Append(@, other)]


\* ------------------------------------------------------ operation heads

\* OpHeadsStore::update_op_heads: add the new head, drop the old ones
update_op_heads(heads, old_ids, new_id) == (heads \cup {new_id}) \ old_ids

\* the operations of a head set no other one of which descends from
filter_ancestor_heads(ops, heads) ==
    {h \in heads : \A g \in heads \ {h} : h \notin OpAncestors(ops, g)}

\* ---------------------------------------------- cmd_op_integrate's resolver

\* mutant: the descendants are not rebased after the merge
merge_other_head_no_rebase(run, ops, other) ==
    {[tx |-> merge_operation(run.tx, ops, other), status |-> run.status]}

\* one turn of the loop over the other heads: merge the head in, rebase the
\* descendants, and report their number when it is positive
merge_other_head(run, ops, other) ==
    {LET r == rebase_descendants(merge_operation(run.tx, ops, other), pick)
     IN  [tx |-> r.tx,
          status |-> IF r.num_rebased > 0
                     THEN Append(run.status, [msg |-> "Rebased", n |-> r.num_rebased])
                     ELSE run.status]
     : pick \in Picks(merge_operation(run.tx, ops, other).mapping)}

RECURSIVE merge_other_heads(_, _, _)
merge_other_heads(runs, ops, others) ==
    IF others = <<>> THEN runs
    ELSE merge_other_heads(UNION {merge_other_head(run, ops, Head(others)) : run \in runs},
                           ops, Tail(others))

\* mutant: the loop skips one head too many
reconcile_op_heads_skip_two(store, ops, op_heads) ==
    {[op |-> [parents |-> run.tx.parents, view |-> run.tx.heads,
              desc |-> "reconcile divergent operations", arg |-> 0],
      store |-> run.tx.store,
      status |-> Append(run.status, [msg |-> "Integrated", n |-> 0])]
     : run \in merge_other_heads(
           {[tx |-> start_repo_transaction(store, ops[op_heads[1]], op_heads[1]),
             status |-> <<>>]},
           ops, Tail(Tail(op_heads)))}

\* mutant: the operation is written with the view of the repo loaded at the
\* first head instead of the transaction's
reconcile_op_heads_base_view(store, ops, op_heads) ==
    {[op |-> [parents |-> run.tx.parents, view |-> ops[op_heads[1]].view,
              desc |-> "reconcile divergent operations", arg |-> 0],
      store |-> run.tx.store,
      status |-> Append(run.status, [msg |-> "Integrated", n |-> 0])]
     : run \in merge_other_heads(
           {[tx |-> start_repo_transaction(store, ops[op_heads[1]], op_heads[1]),
             status |-> <<>>]},
           ops, Tail(op_heads))}

\* the closure handed to resolve_op_heads: every outcome [op, store, status]
reconcile_op_heads(store, ops, op_heads) ==
    {[op |-> [parents |-> run.tx.parents, view |-> run.tx.heads,
              desc |-> "reconcile divergent operations", arg |-> 0],
      store |-> run.tx.store,
      status |-> Append(run.status, [msg |-> "Integrated", n |-> 0])]
     : run \in merge_other_heads(
           {[tx |-> start_repo_transaction(store, ops[op_heads[1]], op_heads[1]),
             status |-> <<>>]},
           ops, Tail(op_heads))}

\* op_heads_store::resolve_op_heads: every outcome [heads, ops, store, status]
resolve_op_heads(heads, ops, store) ==
    LET filtered == filter_ancestor_heads(ops, heads)
    IN  IF Cardinality(heads) = 1
        THEN {[heads |-> heads, ops |-> ops, store |-> store, status |-> <<>>]}
        ELSE IF Cardinality(filtered) = 1
        THEN {[heads |-> update_op_heads(heads, heads \ filtered, Min(filtered)),
               ops |-> ops, store |-> store, status |-> <<>>]}
        ELSE {[heads |-> update_op_heads(heads, (heads \ filtered) \cup SeqToSet(r.op.parents),
                                         Len(ops) + 1),
               ops |-> Append(ops, r.op), store |-> r.store, status |-> r.status]
              : r \in reconcile_op_heads(store, ops, SetToSeq(filtered))}

\* ------------------------------------------------------------------------
\* workspace store: <repo>/workspace_store/index, names -> working-copy paths
\* ------------------------------------------------------------------------

MaxProcs == 2
MaxMutations == 2
MaxSeqMutations == 3
MaxNames == 2

Procs == 1..MaxProcs
WorkspaceNames == {<<"a", "A", "b", "B">>[k] : k \in 1..Min({MaxNames, 4})}

\* a path is its components, from the root when it is absolute
AbsolutePath(parts) == [absolute |-> TRUE, parts |-> parts]
RelativePath(parts) == [absolute |-> FALSE, parts |-> parts]

\* SimpleWorkspaceStore.repo_path, and the workspace roots that are added:
\* the one around the repo, one next to it, one inside the repo directory
RepoPath == AbsolutePath(<<"main", ".jj", "repo">>)
WorkspacePaths == {AbsolutePath(<<"main">>), AbsolutePath(<<"second">>),
                   AbsolutePath(<<"main", ".jj", "repo", "inner">>)}

IsPrefix(pre, seq) == Len(pre) <= Len(seq) /\ SubSeq(seq, 1, Len(pre)) = pre

\* file_util::relative_path(from, to): up from `from` to the closest ancestor
\* that `to` is under, then down
relative_path(from, to) ==
    IF from.absolute # to.absolute THEN to
    ELSE LET up == Min({i \in 0..Len(from.parts) :
                          IsPrefix(SubSeq(from.parts, 1, Len(from.parts) - i), to.parts)})
             suffix == SubSeq(to.parts, Len(from.parts) - up + 1, Len(to.parts))
         IN  IF up = 0 /\ suffix = <<>> THEN RelativePath(<<".">>)
             ELSE RelativePath([k \in 1..up |-> ".."] \o suffix)

RECURSIVE Normalized(_, _)
\* the components of a path with "." and ".." resolved
Normalized(done, parts) ==
    IF parts = <<>> THEN done
    ELSE IF Head(parts) = "." THEN Normalized(done, Tail(parts))
    ELSE IF Head(parts) = ".." /\ done # <<>>
    THEN Normalized(SubSeq(done, 1, Len(done) - 1), Tail(parts))
    ELSE Normalized(Append(done, Head(parts)), Tail(parts))

\* dunce::canonicalize(base.join(path)), links aside
canonicalize_join(base, path) ==
    IF path.absolute THEN AbsolutePath(Normalized(<<>>, path.parts))
    ELSE [absolute |-> base.absolute, parts |-> Normalized(<<>>, base.parts \o path.parts)]

\* the decoded index: simple_workspace_store::Workspaces.workspaces, a
\* sequence of [name, path]

\* mutant: the entries of the same name are kept
add_without_retain(workspaces, workspace_name, path) ==
    Append(workspaces, [name |-> workspace_name, path |-> relative_path(RepoPath, path)])

add(workspaces, workspace_name, path) ==
    Append(SelectSeq(workspaces, LAMBDA w : w.name # workspace_name),
           [name |-> workspace_name, path |-> relative_path(RepoPath, path)])

forget(workspaces, workspace_names) ==
    SelectSeq(workspaces, LAMBDA w : w.name \notin workspace_names)

rename(workspaces, old_name, new_name) ==
    [k \in 1..Len(workspaces) |->
        IF workspaces[k].name = old_name THEN [workspaces[k] EXCEPT !.name = new_name]
        ELSE workspaces[k]]

\* None is <<>>, Some(path) is <<path>>
get_workspace_path(workspaces, workspace_name) ==
    LET found == SelectSeq(workspaces, LAMBDA w : w.name = workspace_name)
    IN  IF found = <<>> THEN <<>> ELSE <<found[1].path>>

\* the index a mutation writes, given the index it has read
Mutated(workspaces, call) ==
    CASE call.op = "add"    -> add(workspaces, call.name, call.path)
      [] call.op = "forget" -> forget(workspaces, call.names)
      [] call.op = "rename" -> rename(workspaces, call.name, call.new_name)

\* a file that does not exist; the index file that exists is <<workspaces>>
NoIndex == <<>>
NoCall == [op |-> "", name |-> "", names |-> {}, new_name |-> "", path |-> RelativePath(<<>>)]
NoOutcome == [err |-> "", value |-> <<>>]
NoProcess == [pc |-> "none", call |-> NoCall, proto |-> <<>>, out |-> NoOutcome]

AddCall(name, path) == [NoCall EXCEPT !.op = "add", !.name = name, !.path = path]
ForgetCall(names) == [NoCall EXCEPT !.op = "forget", !.names = names]
RenameCall(old_name, new_name) ==
    [NoCall EXCEPT !.op = "rename", !.name = old_name, !.new_name = new_name]
GetCall(name) == [NoCall EXCEPT !.op = "get_workspace_path", !.name = name]
LoadCall == [NoCall EXCEPT !.op = "load"]

WsStep(p, proc, store) ==
    /\ wsProcs' = [wsProcs EXCEPT ![p] = proc]
    /\ wsStore' = store
    /\ UNCHANGED <<opVars, cfgVars, cliVars>>

\* SimpleWorkspaceStore::load: `if !store_dir.exists()`
Load(p) ==
    /\ wsProcs[p].pc = "none"
    /\ WsStep(p, [NoProcess EXCEPT !.pc = IF wsStore.dir THEN "ready" ELSE "create_dir",
                                   !.call = LoadCall], wsStore)
    /\ UNCHANGED wsApplied

\* SimpleWorkspaceStore::load: fs::create_dir(&store_dir)
CreateDir(p) ==
    /\ wsProcs[p].pc = "create_dir"
    /\ IF wsStore.dir
       THEN WsStep(p, [wsProcs[p] EXCEPT !.pc = "none", !.out.err = "PathError"], wsStore)
       ELSE WsStep(p, [wsProcs[p] EXCEPT !.pc = "lock"], [wsStore EXCEPT !.dir = TRUE])
    /\ UNCHANGED wsApplied

\* a mutation is called on a loaded store
Call(p, call) ==
    /\ wsProcs[p].pc = "ready"
    /\ Len(wsApplied) + Cardinality({q \in Procs : /\ wsProcs[q].pc \in {"lock", "read", "write"}
                                                   /\ wsProcs[q].call.op # "load"})
         < MaxMutations
    /\ WsStep(p, [NoProcess EXCEPT !.pc = "lock", !.call = call], wsStore)
    /\ UNCHANGED wsApplied

\* a mutation is called by the only process that uses the store
CallAlone(p, call) ==
    /\ wsProcs[p].pc = "ready"
    /\ \A q \in Procs \ {p} : wsProcs[q].pc = "none"
    /\ Len(wsApplied) < MaxSeqMutations
    /\ WsStep(p, [NoProcess EXCEPT !.pc = "lock", !.call = call], wsStore)
    /\ UNCHANGED wsApplied

\* FileLock::lock returns once no other process holds the lock file
lock_is_free(store) == store.lock = 0

\* mutant: the lock is taken whether or not another process holds it
LockNotExclusive(p) ==
    /\ wsProcs[p].pc = "lock"
    /\ WsStep(p, [wsProcs[p] EXCEPT !.pc = IF wsProcs[p].call.op = "load" THEN "write" ELSE "read"],
              [wsStore EXCEPT !.lock = p])
    /\ UNCHANGED wsApplied

\* let _lock = self.lock()?
Lock(p) ==
    /\ wsProcs[p].pc = "lock"
    /\ lock_is_free(wsStore)
    /\ WsStep(p, [wsProcs[p] EXCEPT !.pc = IF wsProcs[p].call.op = "load" THEN "write" ELSE "read"],
              [wsStore EXCEPT !.lock = p])
    /\ UNCHANGED wsApplied

\* read_store: fs::read(&self.store_file), decode
ReadStore(p) ==
    /\ wsProcs[p].pc = "read"
    /\ IF wsStore.index = NoIndex
       THEN WsStep(p, [wsProcs[p] EXCEPT !.pc = "unlock", !.out.err = "PathError"], wsStore)
       ELSE WsStep(p, [wsProcs[p] EXCEPT !.pc = "write", !.proto = wsStore.index[1]], wsStore)
    /\ UNCHANGED wsApplied

\* the mutation of the decoded index, then write_store: the temp file is
\* written and renamed to the index file
WriteStore(p) ==
    /\ wsProcs[p].pc = "write"
    /\ LET call == wsProcs[p].call
           written == IF call.op = "load" THEN <<>> ELSE Mutated(wsProcs[p].proto, call)
       IN  /\ WsStep(p, [wsProcs[p] EXCEPT !.pc = "unlock"],
                     [wsStore EXCEPT !.index = <<written>>])
           /\ wsApplied' = IF call.op = "load" THEN wsApplied
                           ELSE Append(wsApplied,
                                       [call |-> call, by |-> p, read |-> wsProcs[p].proto,
                                        written |-> written,
                                        waiting |-> {q \in Procs : wsProcs[q].pc = "lock"}])

\* the call returns and _lock is dropped
Unlock(p) ==
    /\ wsProcs[p].pc = "unlock"
    /\ WsStep(p, [wsProcs[p] EXCEPT !.pc = "ready"],
              [wsStore EXCEPT !.lock = IF wsStore.lock = p THEN 0 ELSE wsStore.lock])
    /\ UNCHANGED wsApplied

\* get_workspace_path on a loaded store: read_store without the lock
GetWorkspacePath(p, workspace_name) ==
    /\ wsProcs[p].pc = "ready"
    /\ IF wsStore.index = NoIndex
       THEN WsStep(p, [NoProcess EXCEPT !.pc = "ready", !.call = GetCall(workspace_name),
                                       !.out.err = "PathError"], wsStore)
       ELSE WsStep(p, [NoProcess EXCEPT !.pc = "ready", !.call = GetCall(workspace_name),
                                       !.proto = wsStore.index[1],
                                       !.out.value = get_workspace_path(wsStore.index[1],
                                                                        workspace_name)],
                   wsStore)
    /\ UNCHANGED wsApplied

\* a repo made before the workspace store was added: no directory yet
WorkspaceStoreInit ==
    /\ wsStore = [dir |-> FALSE, index |-> NoIndex, lock |-> 0]
    /\ wsProcs = [p \in Procs |-> NoProcess]
    /\ wsApplied = <<>>

\* ------------------------------------------------------------------------
\* bookmark advance
\* ------------------------------------------------------------------------

MaxAdvCommits == 4
MaxBookmarks == 2
MaxAdvances == 2

\* the commits of the repo: a chain 1 <- 2 <- .. on the root commit 0, and
\* the last commit beside the chain, on commit 1
AdvCommits == 1..MaxAdvCommits
AdvParent(c) == IF c = MaxAdvCommits THEN 1 ELSE c - 1

RECURSIVE is_ancestor(_, _)
\* index().is_ancestor(a, c): a is c or an ancestor of c
is_ancestor(a, c) == a = c \/ (c # 0 /\ is_ancestor(a, AdvParent(c)))

\* local bookmark names, numbered in the order of the names
BookmarkNames == 1..MaxBookmarks

\* RefTarget: a merge of commit ids
RefTargetAbsent == [adds |-> <<>>, removes |-> <<>>]
RefTargetNormal(id) == [adds |-> <<id>>, removes |-> <<>>]
RefTargets ==
    {RefTargetAbsent} \cup {RefTargetNormal(id) : id \in AdvCommits}
      \cup {[adds |-> <<x, y>>, removes |-> <<1>>] : x \in {2}, y \in AdvCommits \ {1, 2}}

is_present(target) == target # RefTargetAbsent
\* the commit of a target that is normal, as a sequence of at most one commit
as_normal(target) ==
    IF Len(target.adds) = 1 /\ target.removes = <<>> THEN <<target.adds[1]>> ELSE <<>>
added_ids(target) == SeqToSet(target.adds)

\* view().local_bookmarks(): the names that have a target
local_bookmarks(view) == {name \in BookmarkNames : is_present(view[name])}

\* revsets.bookmark-advance-from
FromRevsets == {"heads(::to & bookmarks())", "::to", "all()"}

\* the commits a from revset evaluates to, `to` bound to the target commit
evaluate(from_revset, view, to) ==
    LET bookmarked == UNION {added_ids(view[name]) : name \in BookmarkNames}
        behind == {c \in AdvCommits : is_ancestor(c, to)} \cap bookmarked
    IN  CASE from_revset = "all()" -> AdvCommits
          [] from_revset = "::to" -> {c \in AdvCommits : is_ancestor(c, to)}
          [] OTHER -> {c \in behind : \A d \in behind : is_ancestor(c, d) => d = c}

\* the arguments of the command: names is <<>> or <<set of names>>
NamesArgs == {<<>>} \cup {<<names>> : names \in SUBSET BookmarkNames \ {{}}}

local_bookmarks_in_from(view, names, to, from_revset) ==
    {name \in names[1] \cap local_bookmarks(view) :
        added_ids(view[name]) \cap evaluate(from_revset, view, to) # {}}

\* names given: the local bookmarks of these names; the from revset is not read
local_bookmarks_matching(view, names, to, from_revset) ==
    names[1] \cap local_bookmarks(view)

\* no names given: the local bookmarks with a target commit in the from revset
source_refs(view, to, from_revset) ==
    {name \in local_bookmarks(view) :
        added_ids(view[name]) \cap evaluate(from_revset, view, to) # {}}

all_kept(view, bookmarks, to) == bookmarks

\* bookmarks.retain(|(_, old_target)| old_target.as_normal() != Some(target_commit.id()))
retain_not_at_target(view, bookmarks, to) ==
    {name \in bookmarks : as_normal(view[name]) # <<to>>}

matched_bookmarks(view, names, to, from_revset) ==
    retain_not_at_target(view,
        IF names # <<>> THEN local_bookmarks_matching(view, names, to, from_revset)
        ELSE source_refs(view, to, from_revset),
        to)

\* every commit on the positive side of the old target is an ancestor of the
\* new target
is_fast_forward(old_target, new_target_id) ==
    \A old \in added_ids(old_target) : is_ancestor(old, new_target_id)

none_refused(view, bookmarks, to) == {}

\* mutant: a move is refused only if no side of the old target is an
\* ancestor of the target commit
no_side_behind(view, bookmarks, to) ==
    {name \in bookmarks : \A old \in added_ids(view[name]) : ~is_ancestor(old, to)}

\* the matched bookmarks the move of which is not a fast-forward
not_fast_forward(view, bookmarks, to) ==
    {name \in bookmarks : ~is_fast_forward(view[name], to)}

only_first_moved(view, bookmarks, to) ==
    [view EXCEPT ![Min(bookmarks)] = RefTargetNormal(to)]

\* for (name, _) in &matched_bookmarks { set_local_bookmark_target(name, normal(to)) }
set_local_bookmark_targets(view, bookmarks, to) ==
    [name \in BookmarkNames |-> IF name \in bookmarks THEN RefTargetNormal(to) ELSE view[name]]

NoAdvance ==
    [names |-> <<>>, to |-> 0, from |-> "", before |-> <<>>, ops |-> 0, matched |-> {},
     err |-> "", refused |-> 0, status |-> "", warnings |-> {}, hint |-> FALSE]

\* jj bookmark advance [names] --to <to>, with revsets.bookmark-advance-from
\* set to from_revset
cmd_bookmark_advance(names, to, from_revset) ==
    LET view == bmRepo.view
        matched == matched_bookmarks(view, names, to, from_revset)
        refused == not_fast_forward(view, matched, to)
        unmatched == IF names = <<>> THEN {} ELSE names[1] \ local_bookmarks(view)
        ran == [NoAdvance EXCEPT !.names = names, !.to = to, !.from = from_revset,
                                 !.before = view, !.ops = Len(bmRepo.ops),
                                 !.matched = matched,
                                 !.warnings = IF unmatched = {} THEN {}
                                              ELSE {"No matching bookmarks for names"}]
        mut_view == set_local_bookmark_targets(view, matched, to)
    IN  /\ Len(bmRepo.ops) < MaxAdvances
        /\ UNCHANGED <<opVars, cfgVars, wsVars, arrange, refList, treeBuilder, uiVars>>
        /\ IF matched = {}
           THEN /\ bmLast' = [ran EXCEPT !.status = "No bookmarks to update."]
                /\ UNCHANGED bmRepo
           ELSE IF refused # {}
           THEN /\ bmLast' = [ran EXCEPT
                                !.err = "Refusing to advance bookmark backwards or sideways",
                                !.refused = Min(refused)]
                /\ UNCHANGED bmRepo
           ELSE /\ bmLast' = [ran EXCEPT
                                !.status = "Advanced bookmarks to",
                                !.warnings = @ \cup (IF to \in bmRepo.discardable
                                                     THEN {"Target revision is empty."}
                                                     ELSE {}),
                                !.hint = (Cardinality(matched) > 1 /\ names = <<>>)]
                \* tx.finish: one operation, if the transaction changed the repo
                /\ bmRepo' = [bmRepo EXCEPT
                                !.view = mut_view,
                                !.ops = IF mut_view = view THEN @
                                        ELSE Append(@, [desc |-> "point bookmark to commit",
                                                         names |-> matched, id |-> to,
                                                         view |-> mut_view])]

\* a repo with some local bookmarks, no bookmark advance run yet
BookmarkInit ==
    /\ bmRepo \in [view : [BookmarkNames -> RefTargets], ops : {<<>>},
                   discardable : {{}, AdvCommits}]
    /\ bmLast = NoAdvance

BookmarkIdle ==
    /\ bmRepo = [view |-> [name \in BookmarkNames |-> RefTargetAbsent], ops |-> <<>>,
                 discardable |-> {}]
    /\ bmLast = NoAdvance

\* ------------------------------------------------------------------------
\* arrange
\* ------------------------------------------------------------------------

MaxArrCommits == 4
MaxEdits == 1
MaxOrdered == 3

ArrCommitIds == 1..MaxArrCommits

\* parent lists a commit c of the repo can have: the root commit 0, one
\* earlier commit, or two earlier commits
ParentLists(c) ==
    {<<0>>} \cup {<<p>> : p \in 1..(c - 1)}
      \cup {pq \in (1..(c - 1)) \X (1..(c - 1)) : pq[1] < pq[2]}

\* the repos: commit c has the parents commits[c]
ArrRepos == {commits \in [ArrCommitIds -> UNION {ParentLists(c) : c \in ArrCommitIds}] :
               \A c \in ArrCommitIds : commits[c] \in ParentLists(c)}

RECURSIVE ancestors(_, _)
\* a commit and its ancestors, the root commit left out
ancestors(commits, c) ==
    IF c = 0 THEN {} ELSE {c} \cup UNION {ancestors(commits, p) : p \in SeqToSet(commits[c])}

\* target_expression.connected().minus(&target_expression)
gaps_revset(commits, set) ==
    {c \in DOMAIN commits :
        /\ c \notin set
        /\ \E d \in set : c \in ancestors(commits, d)
        /\ \E a \in set : a \in ancestors(commits, c)}

\* target_expression.children().minus(&target_expression)
children_revset(commits, set) ==
    {c \in DOMAIN commits : c \notin set /\ SeqToSet(commits[c]) \cap set # {}}

\* the sequences that list every element of a set once
Orderings(S) ==
    {s \in [1..Cardinality(S) -> S] : \A i, j \in 1..Cardinality(S) : s[i] = s[j] => i = j}

\* the orders in which a hash map of some of the commits can yield its keys
KeyOrders == UNION {Orderings(ids) : ids \in SUBSET ArrCommitIds}

\* dag_walk::heads(start, .., in-set parents): the commits of the set that
\* no commit of the set reaches along the parents
heads(commits, parents) ==
    LET in_set == [id \in commits |-> SeqToSet(parents[id]) \cap commits]
    IN  {id \in commits : \A other \in commits : id \notin in_set[other]}

\* State::new(commits, external_children): the parents of both as they are
\* in the repo; commits is the Vec in the order given, current_order that
\* order and head_order the heads in that order
State_new(repo, commits, external_children) ==
    LET ids == SeqToSet(commits)
    IN  [commits |-> ids,
         external_children |-> external_children,
         parents |-> [id \in ids \cup external_children |-> repo[id]],
         head_order |-> SelectSeq(commits, LAMBDA id : id \in heads(ids, repo)),
         current_order |-> commits]

\* the parents of id that are in the set: the edges the walks follow
in_set_parents(state, id) ==
    SelectSeq(state.parents[id], LAMBDA p : p \in state.commits)

RECURSIVE walk_forward(_, _, _)
\* depth-first walk that emits a commit after the parents it follows
walk_forward(state, stack, emitted) ==
    IF stack = <<>> THEN emitted
    ELSE LET id == Head(stack)
         IN  IF id \in SeqToSet(emitted) THEN walk_forward(state, Tail(stack), emitted)
             ELSE LET waiting == SelectSeq(in_set_parents(state, id),
                                           LAMBDA p : p \notin SeqToSet(emitted))
                  IN  IF waiting = <<>>
                      THEN walk_forward(state, Tail(stack), Append(emitted, id))
                      ELSE walk_forward(state, waiting \o stack, emitted)

\* dag_walk::topo_order_forward(self.parents.keys(), .., parents in self.commits)
topo_order_forward(state, keys) == walk_forward(state, keys, <<>>)

RECURSIVE walk_stack(_, _, _)
\* the walk of dag_walk with its stack of (node, neighbors_visited): the node
\* popped is the last one; a node not yet visited is pushed back, then its
\* neighbours; a visited node is emitted
walk_stack(state, stack, emitted) ==
    IF stack = <<>> THEN emitted
    ELSE LET node == stack[Len(stack)]
             rest == SubSeq(stack, 1, Len(stack) - 1)
             neighbors == in_set_parents(state, node[1])
         IN  IF node[1] \in SeqToSet(emitted) THEN walk_stack(state, rest, emitted)
             ELSE IF node[2] THEN walk_stack(state, rest, Append(emitted, node[1]))
             ELSE walk_stack(state,
                             rest \o <<<<node[1], TRUE>>>>
                               \o [i \in 1..Len(neighbors) |-> <<neighbors[i], FALSE>>],
                             emitted)

\* dag_walk::topo_order_reverse(self.head_order.iter(), .., parents in
\* self.commits): the forward order of the walk, reversed
topo_order_reverse(state, start) ==
    LET forward == walk_stack(state, [i \in 1..Len(start) |-> <<start[i], FALSE>>], <<>>)
    IN  [i \in 1..Len(forward) |-> forward[Len(forward) + 1 - i]]

\* the commit a commit has been rewritten to, or itself
new_parent_id(parent_mapping, id) ==
    IF id \in DOMAIN parent_mapping THEN parent_mapping[id] ELSE id

\* mut_repo.new_parents(parent_ids)
new_parents(mut_repo, parent_ids) ==
    [i \in 1..Len(parent_ids) |-> new_parent_id(mut_repo.parent_mapping, parent_ids[i])]

\* CommitRewriter::new(mut_repo, old_commit, new_parents): if
\* parents_changed(), rebase().write() writes the new commit and records
\* the rewrite
rewrite(mut_repo, id, parent_ids) ==
    LET changed == parent_ids # mut_repo.commits[id]
        new_id == Len(mut_repo.commits) + 1
    IN  IF ~changed THEN mut_repo
        ELSE [commits |-> Append(mut_repo.commits, parent_ids),
              parent_mapping |-> [old \in DOMAIN mut_repo.parent_mapping \cup {id} |->
                                    IF old = id THEN new_id ELSE mut_repo.parent_mapping[old]],
              written |-> Append(mut_repo.written, [old |-> id, new |-> new_id])]

RECURSIVE rewrite_in_order(_, _, _)
\* for id in ordered_commit_ids { .. }
rewrite_in_order(state, mut_repo, ordered_commit_ids) ==
    IF ordered_commit_ids = <<>> THEN mut_repo
    ELSE LET id == Head(ordered_commit_ids)
         IN  rewrite_in_order(state,
                 rewrite(mut_repo, id, new_parents(mut_repo, state.parents[id])),
                 Tail(ordered_commit_ids))

RECURSIVE rebase_from(_, _)
\* the commits from id on that are not rewritten and have a rewritten
\* parent are rewritten, parents before children
rebase_from(mut_repo, id) ==
    IF id > Len(mut_repo.commits) THEN mut_repo
    ELSE LET stale == /\ id \notin DOMAIN mut_repo.parent_mapping
                      /\ SeqToSet(mut_repo.commits[id]) \cap DOMAIN mut_repo.parent_mapping # {}
         IN  rebase_from(IF stale
                         THEN rewrite(mut_repo, id, new_parents(mut_repo, mut_repo.commits[id]))
                         ELSE mut_repo,
                         id + 1)

MutableRepo(repo) == [commits |-> repo, parent_mapping |-> <<>>, written |-> <<>>]

NoArrange ==
    [pc |-> "idle", repo |-> <<>>, state |-> <<>>, edits |-> 0, order |-> <<>>,
     mut_repo |-> MutableRepo(<<>>), applied |-> <<>>, tx |-> "none", ops |-> 0,
     err |-> "", status |-> "", keys |-> 0, event |-> <<>>, updated |-> FALSE]

ArrStep(next) ==
    /\ arrange' = next
    /\ UNCHANGED <<opVars, cfgVars, wsVars, bmVars, refList, treeBuilder, uiVars>>

\* State::new for commits of the repo, in any order, and their external
\* children
NewState(commits) ==
    /\ arrange.pc = "init"
    /\ commits # <<>>
    /\ gaps_revset(arrange.repo, SeqToSet(commits)) = {}
    /\ ArrStep([arrange EXCEPT
                  !.pc = "editing",
                  !.state = State_new(arrange.repo, commits,
                                      children_revset(arrange.repo, SeqToSet(commits)))])

\* the parent lists an edit can give a commit: the root commit, or one or
\* two commits of the set
EditLists(commits) ==
    {<<0>>} \cup {<<p>> : p \in commits}
      \cup {pq \in commits \X commits : pq[1] # pq[2]}

RECURSIVE Reached(_, _, _)
\* the keys reached from a commit along at most n parent edges
Reached(parents, id, n) ==
    IF n = 0 THEN {}
    ELSE LET ps == SeqToSet(parents[id]) \cap DOMAIN parents
         IN  ps \cup UNION {Reached(parents, p, n - 1) : p \in ps}

\* no commit is reached from itself along the parents
Acyclic(parents) ==
    \A id \in DOMAIN parents : id \notin Reached(parents, id, Cardinality(DOMAIN parents))

\* state.parents.insert(id, parent_ids)
insert_parents(id, parent_ids) ==
    /\ arrange.pc = "editing"
    /\ arrange.edits < MaxEdits
    /\ id \in DOMAIN arrange.state.parents
    /\ parent_ids \in EditLists(arrange.state.commits) \ {arrange.state.parents[id]}
    /\ Acyclic([arrange.state.parents EXCEPT ![id] = parent_ids])
    /\ ArrStep([arrange EXCEPT !.state.parents[id] = parent_ids, !.edits = @ + 1,
                               !.updated = FALSE])

\* state.head_order = vec![..]: the heads under the edited parents, in the
\* order the caller lists them
assign_head_order(head_order) ==
    /\ arrange.pc = "editing"
    /\ ~arrange.updated
    /\ SeqToSet(head_order) = heads(arrange.state.commits, arrange.state.parents)
    /\ head_order # arrange.state.head_order
    /\ ArrStep([arrange EXCEPT !.state.head_order = head_order])

\* state.update_commit_order()
update_commit_order ==
    /\ arrange.pc = "editing"
    /\ ArrStep([arrange EXCEPT
                  !.state.current_order = topo_order_reverse(arrange.state,
                                                             arrange.state.head_order),
                  !.updated = TRUE])

\* state.apply_changes(tx.repo_mut()); keys is self.parents.keys() in the
\* order the hash map yields them
apply_changes(keys) ==
    LET state == arrange.state
        ordered_commit_ids == topo_order_forward(state, keys)
        mut_repo == rewrite_in_order(state, MutableRepo(arrange.repo), ordered_commit_ids)
    IN  /\ arrange.pc = "editing"
        /\ SeqToSet(keys) = DOMAIN state.parents
        /\ ArrStep([arrange EXCEPT !.pc = "applied", !.order = ordered_commit_ids,
                                   !.mut_repo = mut_repo, !.applied = mut_repo])

\* tx.repo_mut().rebase_descendants()
RebaseDescendants ==
    /\ arrange.pc = "applied"
    /\ ArrStep([arrange EXCEPT !.pc = "rebased",
                               !.mut_repo = rebase_from(arrange.mut_repo, 1)])

MaxKeys == 2

\* the events event::read() can return: a key with or without modifiers,
\* pressed or released
KeyEvents == [code : {"q", "c", "x"}, modifiers : {"NONE", "CONTROL"}, release : BOOLEAN]

release_is_press(event) ==
    CASE event.code = "q" /\ event.modifiers = "NONE" -> "quit"
      [] event.code = "c" /\ event.modifiers = "NONE" -> "confirm"
      [] OTHER -> "continue"

\* what run_tui does with a key event
key_action(event) ==
    IF event.release THEN "continue"
    ELSE CASE event.code = "q" /\ event.modifiers = "NONE" -> "quit"
           [] event.code = "c" /\ event.modifiers = "NONE" -> "confirm"
           [] OTHER -> "continue"

\* revset.iter(): the commits of the set, children before parents
revset_iter(set) ==
    CHOOSE commits \in Orderings(set) :
       \A i, j \in 1..Len(commits) : i < j => commits[i] > commits[j]

\* jj arrange -r <revisions>, up to the first draw of the TUI; immutable is
\* the set of commits check_rewritable_expr refuses
cmd_arrange(revisions, immutable) ==
    /\ arrange.pc = "init"
    /\ ArrStep(
         IF revisions \cap immutable # {}
         THEN [arrange EXCEPT !.pc = "done", !.err = "Commit is immutable"]
         ELSE IF gaps_revset(arrange.repo, revisions) # {}
         THEN [arrange EXCEPT !.pc = "done", !.err = "Cannot arrange revset with gaps in."]
         ELSE IF revisions = {}
         THEN [arrange EXCEPT !.pc = "done", !.status = "No revisions to arrange."]
         ELSE LET state == State_new(arrange.repo, revset_iter(revisions),
                                     children_revset(arrange.repo, revisions))
              IN  [arrange EXCEPT
                     !.pc = "tui",
                     !.state = [state EXCEPT
                                  !.current_order = topo_order_reverse(state, state.head_order)],
                     !.updated = TRUE])

\* the rest of cmd_arrange after run_tui returned Some(state):
\* start_transaction, apply_changes, tx.finish
confirmed(event, keys) ==
    LET applied == rewrite_in_order(arrange.state, MutableRepo(arrange.repo),
                                    topo_order_forward(arrange.state, keys))
        mut_repo == rebase_from(applied, 1)
    IN  [arrange EXCEPT !.pc = "done", !.event = event, !.tx = "finished",
                        !.applied = applied, !.mut_repo = mut_repo,
                        !.ops = IF mut_repo.commits = arrange.repo THEN @ ELSE @ + 1]

\* run_tui: one turn of the loop with a key event
KeyEvent(event) ==
    LET action == key_action(event)
    IN  /\ arrange.pc = "tui"
        /\ CASE action = "quit" ->
                    ArrStep([arrange EXCEPT !.pc = "done", !.event = event,
                                            !.err = "Canceled by user"])
               [] action = "confirm" ->
                    \E keys \in KeyOrders :
                       /\ SeqToSet(keys) = DOMAIN arrange.state.parents
                       /\ ArrStep(confirmed(event, keys))
               [] OTHER ->
                    /\ arrange.keys < MaxKeys
                    /\ ArrStep([arrange EXCEPT !.event = event, !.keys = @ + 1])

\* run_tui: terminal.draw or event::read fails
TuiFails ==
    /\ arrange.pc = "tui"
    /\ \E err \in {"Failed to draw TUI", "Failed to read TUI events"} :
          ArrStep([arrange EXCEPT !.pc = "done", !.err = err])

ArrangeIdle == arrange = NoArrange

\* ------------------------------------------------------------------------
\* Listing of bookmarks and tags: sort (cli/src/commit_ref_list.rs)
\* ------------------------------------------------------------------------

MaxSortItems == 3
MaxSortKeys == 2
MaxRefNames == 2
MaxRemotes == 1
MaxSortCommits == 2

\* author and committer Signature { name, email, timestamp } of the commits
\* of the store: attributes that are equal, smaller and greater
SortCommits ==
    <<[author |-> [name |-> 1, email |-> 1, timestamp |-> 2],
       committer |-> [name |-> 2, email |-> 1, timestamp |-> 1]],
      [author |-> [name |-> 1, email |-> 2, timestamp |-> 1],
       committer |-> [name |-> 1, email |-> 1, timestamp |-> 2]]>>

SortKey ==
    {"Name", "NameDesc",
     "AuthorName", "AuthorNameDesc", "AuthorEmail", "AuthorEmailDesc",
     "AuthorDate", "AuthorDateDesc",
     "CommitterName", "CommitterNameDesc", "CommitterEmail", "CommitterEmailDesc",
     "CommitterDate", "CommitterDateDesc"}

is_commit_dependant(key) == key \notin {"Name", "NameDesc"}

SortKeyLists == UNION {[1..n -> SortKey] : n \in 0..MaxSortKeys}

\* RefListItem.primary: name, remote_name (0: a local ref) and the added
\* ids of its target (<<>>: absent)
RefListItems ==
    [name : 1..MaxRefNames, remote_name : 0..MaxRemotes,
     target : {<<>>} \cup {<<c>> : c \in 1..MaxSortCommits}]

\* Option<T>: None is <<0>>, Some(v) is <<1>> \o v; Ord of Option and of
\* tuples is the lexicographic order of these sequences
None == <<0>>
Some(v) == <<1>> \o v

RECURSIVE cmp(_, _)
cmp(a, b) ==
    IF a = <<>> \/ b = <<>>
      THEN (IF a = b THEN 0 ELSE IF a = <<>> THEN -1 ELSE 1)
      ELSE IF Head(a) < Head(b) THEN -1
      ELSE IF Head(a) > Head(b) THEN 1
      ELSE cmp(Tail(a), Tail(b))

\* (item.primary.name(), item.primary.remote_name())
name_key(item) ==
    <<item.name>> \o (IF item.remote_name = 0 THEN None ELSE Some(<<item.remote_name>>))

\* the commits loaded by sort: those of the first added id of every item,
\* when some key depends on the commit
load_commits(items, sort_keys) ==
    IF \E i \in 1..Len(sort_keys) : is_commit_dependant(sort_keys[i])
      THEN {Head(items[i].target) : i \in {j \in 1..Len(items) : items[j].target # <<>>}}
      ELSE {}

\* to_commit: item.primary.target().added_ids().next()?, commits.get(id)
to_commit(item, commits) ==
    IF item.target = <<>> THEN None
    ELSE IF Head(item.target) \notin commits THEN None
    ELSE Some(<<Head(item.target)>>)

\* to_commit(item).map(|commit| commit.<signature>.<field>)
map_commit(item, commits, signature, field) ==
    LET c == to_commit(item, commits)
    IN  IF c = None THEN None ELSE Some(<<SortCommits[c[2]][signature][field]>>)

\* the key the pass of sort_key sorts by
sort_key_of(sort_key, item, commits) ==
    CASE sort_key \in {"Name", "NameDesc"} -> name_key(item)
      [] sort_key \in {"AuthorName", "AuthorNameDesc"} -> map_commit(item, commits, "author", "name")
      [] sort_key \in {"AuthorEmail", "AuthorEmailDesc"} -> map_commit(item, commits, "author", "email")
      [] sort_key \in {"AuthorDate", "AuthorDateDesc"} ->
           map_commit(item, commits, "author", "timestamp")
      [] sort_key \in {"CommitterName", "CommitterNameDesc"} ->
           map_commit(item, commits, "committer", "name")
      [] sort_key \in {"CommitterEmail", "CommitterEmailDesc"} ->
           map_commit(item, commits, "committer", "email")
      [] sort_key \in {"CommitterDate", "CommitterDateDesc"} ->
           map_commit(item, commits, "committer", "timestamp")

\* the arms that sort by cmp::Reverse of the key
is_reverse(sort_key) ==
    sort_key \in {"NameDesc", "AuthorNameDesc", "AuthorEmailDesc", "AuthorDateDesc",
                  "CommitterNameDesc", "CommitterEmailDesc", "CommitterDateDesc"}

\* Ordering of the keys of one pass
key_cmp(sort_key, a, b, commits) ==
    LET c == cmp(sort_key_of(sort_key, a, commits), sort_key_of(sort_key, b, commits))
    IN  IF is_reverse(sort_key) THEN 0 - c ELSE c

\* slice::sort_by_key: a stable sort; order holds positions of input
RECURSIVE insert_stable(_, _, _, _, _)
insert_stable(sorted, p, input, sort_key, commits) ==
    IF sorted = <<>> THEN <<p>>
    ELSE LET q == sorted[Len(sorted)]
         IN  IF key_cmp(sort_key, input[q], input[p], commits) <= 0
               THEN Append(sorted, p)
               ELSE Append(insert_stable(SubSeq(sorted, 1, Len(sorted) - 1), p, input,
                                         sort_key, commits), q)

RECURSIVE sort_by_key(_, _, _, _)
sort_by_key(order, input, sort_key, commits) ==
    IF order = <<>> THEN <<>>
    ELSE insert_stable(sort_by_key(SubSeq(order, 1, Len(order) - 1), input, sort_key, commits),
                       order[Len(order)], input, sort_key, commits)

RECURSIVE skip_while_name(_)
skip_while_name(keys) ==
    IF keys # <<>> /\ Head(keys) = "Name" THEN skip_while_name(Tail(keys)) ELSE keys

rev(s) == [i \in 1..Len(s) |-> s[Len(s) + 1 - i]]

\* The keys in the order the loop takes them as they are given
passes_in_order(sort_keys) == skip_while_name(sort_keys)

\* sort_keys.iter().rev().skip_while(|key| *key == &SortKey::Name)
passes(sort_keys) == skip_while_name(rev(sort_keys))

\* The input of sort is sorted by name
SortedByName(items) ==
    \A i \in 1..(Len(items) - 1) : cmp(name_key(items[i]), name_key(items[i + 1])) <= 0

NoRefList ==
    [pc |-> "idle", input |-> <<>>, sort_keys |-> <<>>, commits |-> {}, todo |-> <<>>,
     order |-> <<>>]

SortStep(next) ==
    /\ refList' = next
    /\ UNCHANGED <<opVars, cfgVars, wsVars, bmVars, arrange, treeBuilder, uiVars>>

\* sort(store, items, sort_keys) up to the loop of sort_inner
sort(items, sort_keys) ==
    /\ refList.pc = "idle"
    /\ SortedByName(items)
    /\ SortStep([pc |-> "sorting", input |-> items, sort_keys |-> sort_keys,
                 commits |-> load_commits(items, sort_keys),
                 todo |-> passes(sort_keys),
                 order |-> [i \in 1..Len(items) |-> i]])

\* One iteration of the loop of sort_inner
sort_pass ==
    /\ refList.pc = "sorting"
    /\ refList.todo # <<>>
    /\ SortStep([refList EXCEPT
                   !.order = sort_by_key(@, refList.input, Head(refList.todo), refList.commits),
                   !.todo = Tail(@)])

\* The loop of sort_inner ends
sort_return ==
    /\ refList.pc = "sorting"
    /\ refList.todo = <<>>
    /\ SortStep([refList EXCEPT !.pc = "sorted"])

RefListIdle == refList = NoRefList

\* ------------------------------------------------------------------------
\* MergedTreeBuilder (lib/src/merged_tree_builder.rs)
\* ------------------------------------------------------------------------

MaxPaths == 2
MaxValues == 1
MaxBaseSides == 3
MaxOverrideSides == 2

RepoPaths == 1..MaxPaths

\* Option<TreeValue>: 0 is None, the absent entry
TreeValues == 0..MaxValues

\* A tree holds one entry per path; a tree id stands for the tree it names
TreeIds == [RepoPaths -> TreeValues]

empty_tree_id == [path \in RepoPaths |-> 0]

\* Merge<T>: the terms add, remove, add, .. of a conflict; one term when
\* resolved
Merges(T, sides) == UNION {[1..(2 * n - 1) -> T] : n \in 1..sides}

num_sides(merge) == (Len(merge) + 1) \div 2

\* Merge::pad_to: appends pairs of value until the merge has n sides
pad_to(merge, n, value) ==
    IF n <= num_sides(merge) THEN merge
    ELSE merge \o [i \in 1..(2 * n - 1 - Len(merge)) |-> value]

is_resolved(merge) == Len(merge) = 1

\* Merge::simplify: removes an added term and a removed term that are equal,
\* as long as there are such
RECURSIVE simplify(_)
simplify(merge) ==
    LET pairs == {ij \in (1..Len(merge)) \X (1..Len(merge)) :
                    /\ ij[1] % 2 = 1 /\ ij[2] % 2 = 0
                    /\ merge[ij[1]] = merge[ij[2]]}
    IN  IF pairs = {} THEN merge
        ELSE LET ij == CHOOSE p \in pairs :
                         \A q \in pairs : p[1] < q[1] \/ (p[1] = q[1] /\ p[2] <= q[2])
                 adds == SelectSeq([k \in 1..Len(merge) |-> <<k, merge[k]>>],
                                   LAMBDA t : t[1] % 2 = 1 /\ t[1] # ij[1])
                 removes == SelectSeq([k \in 1..Len(merge) |-> <<k, merge[k]>>],
                                      LAMBDA t : t[1] % 2 = 0 /\ t[1] # ij[2])
             IN  simplify([k \in 1..(Len(merge) - 2) |->
                             IF k % 2 = 1 THEN adds[(k + 1) \div 2][2]
                             ELSE removes[k \div 2][2]])

\* The merge of the entries the trees of a merge hold at a path
path_value(tree_ids, path) == [i \in 1..Len(tree_ids) |-> tree_ids[i][path]]

\* MergedTree::resolve: a path whose entries merge to one value holds that
\* value in every tree; the trees are simplified again
resolve(tree_ids) ==
    simplify([i \in 1..Len(tree_ids) |->
                [path \in RepoPaths |->
                   LET value == simplify(path_value(tree_ids, path))
                   IN  IF is_resolved(value) THEN value[1] ELSE tree_ids[i][path]]])

\* ConflictLabels: one label per side, or none
unlabeled == <<>>
ConflictLabels(tree_ids) == {unlabeled, [i \in 1..num_sides(tree_ids) |-> i]}

MergedTrees ==
    {[tree_ids |-> tree_ids, labels |-> labels] :
       tree_ids \in Merges(TreeIds, MaxBaseSides),
       labels \in {unlabeled} \cup {[i \in 1..n |-> i] : n \in 2..MaxBaseSides}}

\* MergedTreeValue
MergedTreeValues == Merges(TreeValues, MaxOverrideSides)

\* TreeBuilder::set_or_remove
builder_set_or_remove(tree, path, value) == [tree EXCEPT ![path] = value]

\* Only the first builder takes the resolved value
set_in_first(tree_builders, path, value) ==
    [i \in 1..Len(tree_builders) |->
       IF i = 1 THEN builder_set_or_remove(tree_builders[i], path, value)
       ELSE tree_builders[i]]

\* for builder in &mut tree_builders { builder.set_or_remove(path, value) }
set_in_all(tree_builders, path, value) ==
    [i \in 1..Len(tree_builders) |-> builder_set_or_remove(tree_builders[i], path, value)]

\* for (builder, value) in zip(&mut tree_builders, values): the shorter of
\* the two ends the loop
set_zipped(tree_builders, path, values) ==
    [i \in 1..Len(tree_builders) |->
       IF i <= Len(values) THEN builder_set_or_remove(tree_builders[i], path, values[i])
       ELSE tree_builders[i]]

RECURSIVE apply_overrides(_, _, _, _)
apply_overrides(tree_builders, overrides, paths, sides) ==
    IF paths = <<>> THEN tree_builders
    ELSE LET path == Head(paths)
             values == overrides[path]
         IN  apply_overrides(
               IF is_resolved(values) THEN set_in_all(tree_builders, path, values[1])
               ELSE set_zipped(tree_builders, path, pad_to(values, sides, 0)),
               overrides, Tail(paths), sides)

\* self.overrides.values().map(|value| value.num_sides()).max().unwrap_or(0)
max_num_sides(overrides) ==
    IF DOMAIN overrides = {} THEN 0
    ELSE Max({num_sides(overrides[path]) : path \in DOMAIN overrides})

\* MergedTreeBuilder::write_merged_trees; the overrides are taken in the
\* order of their paths
write_merged_trees(base_tree_ids, overrides) ==
    LET sides == max_num_sides(overrides)
        tree_builders == pad_to(base_tree_ids, sides, empty_tree_id)
    IN  apply_overrides(tree_builders, overrides, SetToSeq(DOMAIN overrides), sides)

NoTreeBuilder ==
    [pc |-> "idle", base_tree |-> <<>>, overrides |-> <<>>, new_tree_ids |-> <<>>,
     new |-> <<>>, tree |-> <<>>]

MtbStep(next) ==
    /\ treeBuilder' = next
    /\ UNCHANGED <<opVars, cfgVars, wsVars, bmVars, arrange, refList, uiVars>>

\* MergedTreeBuilder::new(base_tree)
MergedTreeBuilder_new ==
    /\ treeBuilder.pc = "idle"
    /\ \E base_tree \in MergedTrees :
          /\ base_tree.labels \in ConflictLabels(base_tree.tree_ids)
          /\ MtbStep([NoTreeBuilder EXCEPT !.pc = "building", !.base_tree = base_tree])

\* MergedTreeBuilder::set_or_remove(path, values)
set_or_remove(path, values) ==
    /\ treeBuilder.pc = "building"
    /\ MtbStep([treeBuilder EXCEPT
                  !.overrides = [p \in DOMAIN @ \cup {path} |-> IF p = path THEN values ELSE @[p]]])

\* the labels are passed on whatever the number of sides
labels_as_given(labels, tree_ids) == labels

\* if labels.num_sides() == Some(tree_ids.num_sides()) { labels } else
\* { ConflictLabels::unlabeled() }
labels_if_same_sides(labels, tree_ids) ==
    IF labels # unlabeled /\ Len(labels) = num_sides(tree_ids) THEN labels ELSE unlabeled

\* MergedTree::resolve of a labelled tree: the labels stay with a result of
\* as many sides and go with the sides otherwise
resolve_tree(tree) ==
    LET tree_ids == resolve(tree.tree_ids)
    IN  [tree_ids |-> tree_ids, labels |-> labels_if_same_sides(tree.labels, tree_ids)]

\* MergedTreeBuilder::write_tree; new is the tree given to MergedTree::new
write_tree ==
    /\ treeBuilder.pc = "building"
    /\ LET labels == treeBuilder.base_tree.labels
           new_tree_ids == write_merged_trees(treeBuilder.base_tree.tree_ids,
                                              treeBuilder.overrides)
           tree_ids == simplify(new_tree_ids)
           tree == [tree_ids |-> tree_ids, labels |-> labels_if_same_sides(labels, tree_ids)]
       IN  MtbStep([treeBuilder EXCEPT
                      !.pc = "written",
                      !.new_tree_ids = new_tree_ids,
                      !.new = IF is_resolved(tree_ids) THEN <<>> ELSE <<tree>>,
                      !.tree =
                        IF is_resolved(tree_ids)
                          THEN [tree_ids |-> tree_ids, labels |-> unlabeled]
                          ELSE resolve_tree(tree)])

TreeBuilderIdle == treeBuilder = NoTreeBuilder

\* ------------------------------------------------------------------------
\* Working copy: conflicted files written with markers
\* (cli/tests/test_working_copy.rs)
\* ------------------------------------------------------------------------

MaxConflictSides == 2
MaxLines == 1
MaxMarkerRun == 8

\* the markers of a conflict without marker-like lines are 7 characters long;
\* with a marker-like line of 7 characters they are 11 characters long
MIN_CONFLICT_MARKER_LEN == 7
CONFLICT_MARKER_LEN_INCREMENT == 4

\* A line of a file is kept as the number of marker characters it starts
\* with when it reads like a marker ("======= fake marker": 7); 0: any other
\* line
FileLines == 0..MaxMarkerRun
FileContents == UNION {[1..n -> FileLines] : n \in 0..MaxLines}

\* The sides of a conflicted file: add, remove, add, ..
ConflictedFiles == UNION {[1..(2 * n - 1) -> FileContents] : n \in 2..MaxConflictSides}

\* the runs of the marker-like lines of all sides
marker_lens(sides) ==
    UNION {{sides[i][k] : k \in 1..Len(sides[i])} : i \in 1..Len(sides)} \ {0}

\* A line is taken for a marker of the conflict when it starts with at least
\* as many marker characters as the markers written
collides(len, sides) == \E run \in marker_lens(sides) : run >= len

\* The shortest length from the minimum up that no line collides with
shortest_free_marker_len(sides) ==
    CHOOSE len \in MIN_CONFLICT_MARKER_LEN..(MaxMarkerRun + CONFLICT_MARKER_LEN_INCREMENT + 1) :
       /\ ~collides(len, sides)
       /\ \A shorter \in MIN_CONFLICT_MARKER_LEN..(len - 1) : collides(shorter, sides)

\* The length of the markers a conflicted file is written with: the longest
\* marker-like line of any side and the increment, at least the minimum
choose_materialized_conflict_marker_len(sides) ==
    LET lens == marker_lens(sides)
        max_existing_marker_len == IF lens = {} THEN 0 ELSE Max(lens)
    IN  Max({max_existing_marker_len + CONFLICT_MARKER_LEN_INCREMENT, MIN_CONFLICT_MARKER_LEN})

NoWcFile == [pc |-> "idle", sides |-> <<>>, conflict_marker_len |-> <<>>]

WcStep(next) ==
    /\ wcFile' = next
    /\ UNCHANGED <<opVars, cfgVars, wsVars, bmVars, arrange, refList, treeBuilder, progress>>

\* jj new side-a side-b: the conflicted file is written to the working copy
\* and its marker length recorded (MaterializedConflictData)
materialize_conflict ==
    /\ wcFile.pc = "idle"
    /\ \E sides \in ConflictedFiles :
          WcStep([pc |-> "materialized", sides |-> sides,
                  conflict_marker_len |->
                    <<choose_materialized_conflict_marker_len(sides)>>])

\* The user edits the file and it is snapshotted: a line with fewer marker
\* characters than the recorded length is content of the side it is in
snapshot_conflict ==
    /\ wcFile.pc = "materialized"
    /\ \E i \in 1..Len(wcFile.sides), content \in FileContents :
          /\ i % 2 = 1
          /\ content # wcFile.sides[i]
          /\ \A k \in 1..Len(content) : content[k] < wcFile.conflict_marker_len[1]
          /\ WcStep([wcFile EXCEPT !.pc = "snapshotted", !.sides[i] = content])

\* The user resolves the file: the marker length is removed from the working
\* copy state
resolve_conflict ==
    /\ wcFile.pc \in {"materialized", "snapshotted"}
    /\ \E content \in FileContents :
          WcStep([pc |-> "resolved", sides |-> <<content>>, conflict_marker_len |-> <<>>])

WcFileIdle == wcFile = NoWcFile

\* ------------------------------------------------------------------------
\* Progress of a snapshot: the rate-limited status line (cli/src/progress.rs)
\* ------------------------------------------------------------------------

MaxDisplayCalls == 3

\* Instants and Durations in nanoseconds
NanosPerSec == 1000000000
UPDATE_HZ == 30
INITIAL_DELAY == 250000000
DefaultTermWidth == 80
PrefixLen == 12

\* Duration::from_secs(1) / UPDATE_HZ: whole nanoseconds
update_interval == NanosPerSec \div UPDATE_HZ

\* the time that passes before a call reads Instant::now()
Elapsed == {0, 1, update_interval - 1, update_interval, INITIAL_DELAY - 1, INITIAL_DELAY}

\* the lengths of the paths shown, and the widths of the terminal if known
TextLens == {5, 70}
TermWidths == {<<>>, <<10>>, <<100>>}

\* a.saturating_sub(b) on usize
saturating_sub(a, b) == IF a >= b THEN a - b ELSE 0

\* text_util::elide_start(text, "...", max_width): the length of the text
\* shown, cut at the start to fit
elide_start(text, max_width) == IF text <= max_width THEN text ELSE max_width

\* a display that writes whatever the next display time
never_before(now, next_display_time) == FALSE

\* if now < self.next_display_time { return; }
too_early(now, next_display_time) == now < next_display_time

NoProgress ==
    [pc |-> "idle", now |-> 0, created |-> 0, next_display_time |-> 0, guard |-> FALSE,
     written |-> <<>>, calls |-> 0, last |-> <<>>, cleared |-> FALSE]

ProgressStep(next) ==
    /\ progress' = next
    /\ UNCHANGED <<opVars, cfgVars, wsVars, bmVars, arrange, refList, treeBuilder, wcFile>>

\* Progress::new(ui, prefix): None when the ui has no progress output
Progress_new(has_output, elapsed) ==
    LET now == progress.now + elapsed
    IN  /\ progress.pc = "idle"
        /\ ProgressStep(
             IF ~has_output THEN [progress EXCEPT !.pc = "none", !.now = now]
             ELSE [progress EXCEPT !.pc = "active", !.now = now, !.created = now,
                                   !.next_display_time = now + INITIAL_DELAY])

\* Progress::display(text), called under the mutex of snapshot_progress
display(text, term_width, elapsed) ==
    LET now == progress.now + elapsed
        line_width == IF term_width = <<>> THEN DefaultTermWidth ELSE term_width[1]
        max_path_width == PrefixLen + 1
        display_text == elide_start(text, saturating_sub(line_width, max_path_width))
        call == [now |-> now, next_display_time |-> progress.next_display_time,
                 lines |-> Len(progress.written)]
    IN  /\ progress.pc = "active"
        /\ progress.calls < MaxDisplayCalls
        /\ ProgressStep(
             IF too_early(now, progress.next_display_time)
             THEN [progress EXCEPT !.now = now, !.calls = @ + 1,
                                   !.last = <<call @@ [wrote |-> FALSE]>>]
             ELSE [progress EXCEPT
                     !.now = now, !.calls = @ + 1,
                     !.next_display_time = now + update_interval,
                     !.guard = TRUE,
                     !.written = Append(@, [at |-> now, len |-> PrefixLen + 1 + display_text]),
                     !.last = <<call @@ [wrote |-> TRUE]>>])

\* the closure of snapshot_progress is dropped: the guard, if installed,
\* clears the line
Progress_drop ==
    /\ progress.pc = "active"
    /\ ProgressStep([progress EXCEPT !.pc = "dropped", !.cleared = progress.guard])

ProgressIdle == progress = NoProgress

CliInit ==
    /\ BookmarkIdle
    /\ ArrangeIdle
    /\ RefListIdle
    /\ TreeBuilderIdle
    /\ WcFileIdle
    /\ ProgressIdle

\* ------------------------------------------------------------------------
\* secure config: the per-repo config kept outside the repo
\* ------------------------------------------------------------------------

MaxDirs == 2
MaxRandom == 2
MaxContents == 1

CONFIG_ID_BYTES == 10
CONFIG_NOT_FOUND == "Per-repo config not found. Generating an empty one."
CONFIG_MIGRATED == "Your config file has been migrated"
REPO_COPIED == "Your repo appears to have been copied"

\* the repo directory paths; the contents a config file can have (0: empty)
Dirs == 1..MaxDirs
Contents == 0..MaxContents

HexDigits == <<"0", "1", "2", "3", "4", "5", "6", "7", "8", "9", "a", "b", "c", "d", "e", "f">>

RECURSIVE encode_hex(_)
encode_hex(bytes) ==
    IF bytes = <<>> THEN <<>>
    ELSE <<HexDigits[(Head(bytes) \div 16) + 1], HexDigits[(Head(bytes) % 16) + 1]>>
         \o encode_hex(Tail(bytes))

\* what rng.random::<[u8; CONFIG_ID_BYTES]>() can yield
RandomBytes == {[k \in 1..CONFIG_ID_BYTES |-> (29 * k + 67 * s) % 256] : s \in 1..MaxRandom}

generate_config_id(rnd) == encode_hex(rnd)

ConfigIds == {generate_config_id(rnd) : rnd \in RandomBytes}

\* str::to_ascii_uppercase
to_ascii_uppercase(str) ==
    [k \in 1..Len(str) |->
        CASE str[k] = "a" -> "A" [] str[k] = "b" -> "B" [] str[k] = "c" -> "C"
          [] str[k] = "d" -> "D" [] str[k] = "e" -> "E" [] str[k] = "f" -> "F"
          [] OTHER -> str[k]]

\* what a config-id file can hold when something else than generate_config
\* has written it: an id in upper case, an id cut short or grown by a digit,
\* an id with a letter that is no hex digit
ForeignConfigIds ==
    UNION {{to_ascii_uppercase(id), SubSeq(id, 1, Len(id) - 1), id \o <<"0">>,
            [id EXCEPT ![1] = "g"]} : id \in ConfigIds}

\* the directory names looked up under the config root
ConfigDirNames == ConfigIds \cup {to_ascii_uppercase(id) : id \in ConfigIds}

is_ascii_hexdigit(c) ==
    c \in {"0", "1", "2", "3", "4", "5", "6", "7", "8", "9",
           "a", "b", "c", "d", "e", "f", "A", "B", "C", "D", "E", "F"}

\* a file that does not exist; a file that exists is <<content>>
NoFile == <<>>
NoLegacy == [exists |-> FALSE, symlink |-> <<>>, content |-> 0]
NoDir == [kind |-> "none", target |-> 0, config_id |-> NoFile, legacy |-> NoLegacy,
          writable |-> FALSE]
EmptyDir == [kind |-> "dir", target |-> 0, config_id |-> NoFile, legacy |-> NoLegacy,
             writable |-> TRUE]
NoConfigDir == [exists |-> FALSE, metadata |-> NoFile, config |-> NoFile]
DefaultMetadata == [path |-> <<>>]
NoInstance == [repo_dir |-> 0, cache |-> <<>>]
\* no call has returned: besides the result, a call leaves behind the file
\* system it started from, whether it was answered from the cache, and what
\* the instance before this one returned for the same directory when the file
\* system has not been touched since; since is the set of directories in
\* which load_config has run since the file system was last touched from
\* outside, clean whether each of these calls succeeded without drawing an id
\* that was already in use
NoFileSystem == [repos |-> <<>>, configs |-> <<>>]
Idle == [call |-> "none", dir |-> 0, err |-> "", config_file |-> <<>>,
         metadata |-> DefaultMetadata, warnings |-> <<>>,
         before |-> NoFileSystem, cached |-> FALSE, earlier |-> <<>>,
         since |-> {}, clean |-> TRUE]

\* no call is inside generate_config
NoWriter == [pc |-> "idle", d |-> 0, config_id |-> <<>>, content |-> <<>>,
             metadata |-> DefaultMetadata, caller |-> "", before |-> NoFileSystem]

\* the directory a path leads to (through a symlink), 0 when there is none
Resolve(repos, d) ==
    IF d = 0 THEN 0
    ELSE IF repos[d].kind = "dir" THEN d
    ELSE IF repos[d].kind = "link" /\ repos[repos[d].target].kind = "dir" THEN repos[d].target
    ELSE 0

is_dir(repos, d) == Resolve(repos, d) # 0

\* NamedTempFile::new_in(d) succeeds
can_create_in(repos, d) == is_dir(repos, d) /\ repos[Resolve(repos, d)].writable

\* fs::read_to_string(repo_dir/config-id)
read_config_id(repos, d) ==
    IF is_dir(repos, d) THEN repos[Resolve(repos, d)].config_id ELSE NoFile

\* fs::read(repo_dir/legacy config), following the symlink
read_legacy(fs, d) ==
    IF ~is_dir(fs.repos, d) THEN NoFile
    ELSE LET legacy == fs.repos[Resolve(fs.repos, d)].legacy
         IN  IF ~legacy.exists THEN NoFile
             ELSE IF legacy.symlink # <<>> THEN fs.configs[legacy.symlink[1]].config
             ELSE <<legacy.content>>

\* atomic_write of the config-id file of repo directory d
atomic_write(fs, d, config_id) ==
    IF can_create_in(fs.repos, d)
    THEN [fs |-> [fs EXCEPT !.repos[Resolve(fs.repos, d)].config_id = <<config_id>>],
          err |-> ""]
    ELSE [fs |-> fs, err |-> "PathError"]

update_metadata(fs, config_id, metadata) ==
    [fs EXCEPT !.configs[config_id].metadata = <<metadata>>]

\* content is None (<<>>) or Some (<<c>>)
generate_config(fs, d, config_id, content, metadata) ==
    LET made    == [fs EXCEPT !.configs[config_id].exists = TRUE]
        with_md == update_metadata(made, config_id, metadata)
        with_c  == IF content # <<>>
                   THEN [with_md EXCEPT !.configs[config_id].config = content]
                   ELSE with_md
        w       == atomic_write(with_c, d, config_id)
    IN  [fs |-> w.fs, err |-> w.err, path |-> <<config_id>>]

\* mutant: the generated metadata records no path
generate_initial_config_no_path(fs, d, config_id) ==
    LET g == generate_config(fs, d, config_id, <<>>, DefaultMetadata)
    IN  [fs |-> g.fs, err |-> g.err, path |-> g.path, metadata |-> DefaultMetadata]

generate_initial_config(fs, d, config_id) ==
    LET g == generate_config(fs, d, config_id, <<>>, [path |-> <<d>>])
    IN  [fs |-> g.fs, err |-> g.err, path |-> g.path, metadata |-> [path |-> <<d>>]]

Loaded(fs, err, config_file, metadata, warnings) ==
    [fs |-> fs, err |-> err, config_file |-> config_file, metadata |-> metadata,
     warnings |-> warnings]

Failed(fs, err) == Loaded(fs, err, <<>>, DefaultMetadata, <<>>)

\* mutant: the temp file is not looked up under the recorded path
handle_metadata_path_no_alias(fs, d, rnd, config_dir, metadata) ==
    LET got == metadata.path
        moved == [path |-> <<d>>]
    IN  IF got = <<d>>
        THEN Loaded(fs, "", <<config_dir>>, metadata, <<>>)
        ELSE IF got = <<>> \/ ~is_dir(fs.repos, got[1])
        THEN Loaded(update_metadata(fs, config_dir, moved), "", <<config_dir>>, moved, <<>>)
        ELSE IF can_create_in(fs.repos, d)
        THEN LET old_config_content == fs.configs[config_dir].config
             IN  IF old_config_content = NoFile
                 THEN Failed(fs, "PathError")
                 ELSE LET g == generate_config(fs, d, generate_config_id(rnd),
                                               old_config_content, moved)
                      IN  IF g.err # "" THEN Failed(g.fs, g.err)
                          ELSE Loaded(g.fs, "", g.path, moved, <<REPO_COPIED>>)
        ELSE Loaded(fs, "", <<config_dir>>, metadata, <<>>)

\* mutant: a repo whose recorded directory is gone is not taken as moved
handle_metadata_path_no_move(fs, d, rnd, config_dir, metadata) ==
    LET got == metadata.path
        moved == [path |-> <<d>>]
    IN  IF got = <<d>> \/ got = <<>> \/ ~is_dir(fs.repos, got[1])
        THEN Loaded(fs, "", <<config_dir>>, metadata, <<>>)
        ELSE IF can_create_in(fs.repos, d) /\ Resolve(fs.repos, got[1]) # Resolve(fs.repos, d)
        THEN LET old_config_content == fs.configs[config_dir].config
             IN  IF old_config_content = NoFile
                 THEN Failed(fs, "PathError")
                 ELSE LET g == generate_config(fs, d, generate_config_id(rnd),
                                               old_config_content, moved)
                      IN  IF g.err # "" THEN Failed(g.fs, g.err)
                          ELSE Loaded(g.fs, "", g.path, moved, <<REPO_COPIED>>)
        ELSE Loaded(fs, "", <<config_dir>>, metadata, <<>>)

handle_metadata_path(fs, d, rnd, config_dir, metadata) ==
    LET got == metadata.path
        moved == [path |-> <<d>>]
    IN  IF got = <<d>>
        THEN Loaded(fs, "", <<config_dir>>, metadata, <<>>)
        ELSE IF got = <<>> \/ ~is_dir(fs.repos, got[1])
        THEN Loaded(update_metadata(fs, config_dir, moved), "", <<config_dir>>, moved, <<>>)
        ELSE IF can_create_in(fs.repos, d) /\ Resolve(fs.repos, got[1]) # Resolve(fs.repos, d)
        THEN LET old_config_content == fs.configs[config_dir].config
             IN  IF old_config_content = NoFile
                 THEN Failed(fs, "PathError")
                 ELSE LET g == generate_config(fs, d, generate_config_id(rnd),
                                               old_config_content, moved)
                      IN  IF g.err # "" THEN Failed(g.fs, g.err)
                          ELSE Loaded(g.fs, "", g.path, moved, <<REPO_COPIED>>)
        ELSE Loaded(fs, "", <<config_dir>>, metadata, <<>>)

\* cfg(unix): the legacy file becomes a symlink to the new config file
update_legacy_config_file(fs, d, new_config) ==
    [fs EXCEPT !.repos[Resolve(fs.repos, d)].legacy =
                   [exists |-> TRUE, symlink |-> new_config, content |-> 0]]

\* mutant: the migrated config file is created empty
maybe_migrate_legacy_config_empty(fs, d, rnd) ==
    LET config == read_legacy(fs, d)
    IN  IF config = NoFile
        THEN Loaded(fs, "", <<>>, DefaultMetadata, <<>>)
        ELSE LET g == generate_config(fs, d, generate_config_id(rnd), <<0>>, [path |-> <<d>>])
             IN  IF g.err # "" THEN Failed(g.fs, g.err)
                 ELSE Loaded(update_legacy_config_file(g.fs, d, g.path), "", g.path,
                             [path |-> <<d>>], <<CONFIG_MIGRATED>>)

maybe_migrate_legacy_config(fs, d, rnd) ==
    LET config == read_legacy(fs, d)
    IN  IF config = NoFile
        THEN Loaded(fs, "", <<>>, DefaultMetadata, <<>>)
        ELSE LET g == generate_config(fs, d, generate_config_id(rnd), config, [path |-> <<d>>])
             IN  IF g.err # "" THEN Failed(g.fs, g.err)
                 ELSE Loaded(update_legacy_config_file(g.fs, d, g.path), "", g.path,
                             [path |-> <<d>>], <<CONFIG_MIGRATED>>)

valid_config_id(config_id) ==
    /\ Len(config_id) = CONFIG_ID_BYTES * 2
    /\ \A k \in 1..Len(config_id) : is_ascii_hexdigit(config_id[k])

\* the result of a call, with the cache the instance has afterwards
WithCache(l, cache) ==
    [fs |-> l.fs, err |-> l.err, config_file |-> l.config_file, metadata |-> l.metadata,
     warnings |-> l.warnings, cache |-> cache]

maybe_load_config(inst, fs, rnd) ==
    IF inst.cache # <<>>
    THEN WithCache(Loaded(fs, "", inst.cache[1].config_file, inst.cache[1].metadata, <<>>),
                   inst.cache)
    ELSE LET d == inst.repo_dir
             config_id == read_config_id(fs.repos, d)
             l == IF config_id = NoFile THEN maybe_migrate_legacy_config(fs, d, rnd)
                  ELSE IF ~valid_config_id(config_id[1]) THEN Failed(fs, "BadConfigIdError")
                  ELSE IF fs.configs[config_id[1]].metadata # NoFile
                  THEN handle_metadata_path(fs, d, rnd, config_id[1],
                                            fs.configs[config_id[1]].metadata[1])
                  ELSE LET g == generate_initial_config(fs, d, config_id[1])
                       IN  IF g.err # "" THEN Failed(g.fs, g.err)
                           ELSE Loaded(g.fs, "", g.path, g.metadata, <<CONFIG_NOT_FOUND>>)
         IN  IF l.err # "" THEN WithCache(l, inst.cache)
             ELSE WithCache(l, <<[config_file |-> l.config_file, metadata |-> l.metadata]>>)

\* mutant: a config is generated whether or not there is one
load_config_always_generates(inst, fs, rnd) ==
    LET loaded_ == maybe_load_config(inst, fs, rnd)
    IN  IF loaded_.err # "" THEN loaded_
        ELSE LET g == generate_initial_config(loaded_.fs, inst.repo_dir, generate_config_id(rnd))
             IN  IF g.err # "" THEN WithCache(Failed(g.fs, g.err), loaded_.cache)
                 ELSE WithCache(Loaded(g.fs, "", g.path, g.metadata, loaded_.warnings),
                                <<[config_file |-> g.path, metadata |-> g.metadata]>>)

load_config(inst, fs, rnd) ==
    LET loaded_ == maybe_load_config(inst, fs, rnd)
    IN  IF loaded_.err # "" \/ loaded_.config_file # <<>> THEN loaded_
        ELSE LET g == generate_initial_config(loaded_.fs, inst.repo_dir, generate_config_id(rnd))
             IN  IF g.err # "" THEN WithCache(Failed(g.fs, g.err), loaded_.cache)
                 ELSE WithCache(Loaded(g.fs, "", g.path, g.metadata, loaded_.warnings),
                                <<[config_file |-> g.path, metadata |-> g.metadata]>>)

\* ---------------------------------------------- secure config: actions

FileSystem == [repos |-> repoDirs, configs |-> configDirs]

Returned(name, r) ==
    /\ repoDirs' = r.fs.repos
    /\ configDirs' = r.fs.configs
    /\ instance' = [instance EXCEPT !.cache = r.cache]
    /\ loaded' = [call |-> name, dir |-> instance.repo_dir, err |-> r.err,
                  config_file |-> r.config_file, metadata |-> r.metadata,
                  warnings |-> r.warnings,
                  before |-> FileSystem, cached |-> instance.cache # <<>>,
                  earlier |-> loaded.earlier,
                  since |-> IF name = "load_config" THEN loaded.since \cup {instance.repo_dir}
                            ELSE loaded.since,
                  clean |-> /\ loaded.clean
                            /\ r.err = ""
                            /\ LET config_id == read_config_id(r.fs.repos, instance.repo_dir)
                                   drawn == \/ r.warnings = <<REPO_COPIED>>
                                            \/ read_config_id(repoDirs, instance.repo_dir) = NoFile
                               IN  drawn /\ config_id # NoFile => ~configDirs[config_id[1]].exists]
    /\ UNCHANGED <<opVars, wsVars, cliVars, writer>>

\* SecureConfig::new_repo(d): a new instance, with an empty cache
new_repo(d) ==
    /\ repoDirs[d].kind # "none"
    /\ instance' = [repo_dir |-> d, cache |-> <<>>]
    /\ loaded' = IF loaded.call # "none" /\ loaded.dir = d /\ loaded.err = ""
                 THEN [Idle EXCEPT !.earlier = <<[config_file |-> loaded.config_file,
                                                  metadata |-> loaded.metadata]>>,
                                   !.since = loaded.since, !.clean = loaded.clean]
                 ELSE [Idle EXCEPT !.since = loaded.since, !.clean = loaded.clean]
    /\ UNCHANGED <<repoDirs, configDirs>>
    /\ UNCHANGED <<opVars, wsVars, cliVars, writer>>

CallMaybeLoadConfig(rnd) ==
    /\ instance.repo_dir # 0
    /\ Returned("maybe_load_config", maybe_load_config(instance, FileSystem, rnd))

CallLoadConfig(rnd) ==
    /\ instance.repo_dir # 0
    /\ Returned("load_config", load_config(instance, FileSystem, rnd))

\* what happens to the file system between the runs of the program
Outside(repos, configs) ==
    /\ repoDirs' = repos
    /\ configDirs' = configs
    /\ loaded' = Idle
    /\ instance' = NoInstance
    /\ UNCHANGED <<opVars, wsVars, cliVars, writer>>

\* fs::copy of the repo directory to a new place
CopyRepo(from, to) ==
    /\ repoDirs[from].kind = "dir"
    /\ repoDirs[to].kind = "none"
    /\ Outside([repoDirs EXCEPT ![to] = repoDirs[from]], configDirs)

\* fs::rename of the repo directory
MoveRepo(from, to) ==
    /\ repoDirs[from].kind = "dir"
    /\ repoDirs[to].kind = "none"
    /\ Outside([repoDirs EXCEPT ![to] = repoDirs[from], ![from] = NoDir], configDirs)

\* symlink(from, to)
AliasRepo(from, to) ==
    /\ repoDirs[from].kind = "dir"
    /\ repoDirs[to].kind = "none"
    /\ Outside([repoDirs EXCEPT ![to] = [NoDir EXCEPT !.kind = "link", !.target = from]],
               configDirs)

\* the user edits the config file: fs::write(path, content)
EditConfig(config_id, content) ==
    /\ configDirs[config_id].exists
    /\ configDirs[config_id].config # <<content>>
    /\ Outside(repoDirs, [configDirs EXCEPT ![config_id].config = <<content>>])

\* fs::remove_dir_all of a config directory
RemoveConfigDir(config_id) ==
    /\ configDirs[config_id].exists
    /\ Outside(repoDirs, [configDirs EXCEPT ![config_id] = NoConfigDir])

\* a repo written by an old version holds its config in the repo directory
LegacyDir(content) ==
    [EmptyDir EXCEPT !.legacy = [exists |-> TRUE, symlink |-> <<>>, content |-> content]]

\* the repo directory becomes read-only
MakeReadOnly(d) ==
    /\ repoDirs[d].kind = "dir"
    /\ repoDirs[d].writable
    /\ Outside([repoDirs EXCEPT ![d].writable = FALSE], configDirs)

\* the config-id file of a repo directory is written by something else
WriteConfigId(d, content) ==
    /\ repoDirs[d].kind = "dir"
    /\ repoDirs[d].config_id # <<content>>
    /\ Outside([repoDirs EXCEPT ![d].config_id = <<content>>], configDirs)

\* -------------------------- secure config: generate_config, write by write

\* a call is inside generate_config
Running == writer.pc \notin {"idle", "returned", "crashed"}

\* the instance's call reaches generate_config(root, config_id, content, metadata)
Enters(config_id, content, caller) ==
    /\ ~Running
    /\ instance.repo_dir # 0
    /\ instance.cache = <<>>
    /\ writer' = [pc |-> "create_dir_all", d |-> instance.repo_dir, config_id |-> config_id,
                  content |-> content, metadata |-> [path |-> <<instance.repo_dir>>],
                  caller |-> caller, before |-> FileSystem]
    /\ UNCHANGED <<repoDirs, configDirs, instance, loaded>>
    /\ UNCHANGED <<opVars, wsVars, cliVars>>

\* load_config in a repo without config-id and legacy config
EnterInitial(rnd) ==
    /\ read_config_id(repoDirs, instance.repo_dir) = NoFile
    /\ read_legacy(FileSystem, instance.repo_dir) = NoFile
    /\ Enters(generate_config_id(rnd), <<>>, "load_config")

\* maybe_migrate_legacy_config in a repo with a legacy config
EnterMigration(rnd) ==
    /\ read_config_id(repoDirs, instance.repo_dir) = NoFile
    /\ read_legacy(FileSystem, instance.repo_dir) # NoFile
    /\ Enters(generate_config_id(rnd), read_legacy(FileSystem, instance.repo_dir),
              "maybe_migrate_legacy_config")

\* handle_metadata_path in a copied repo whose old config file can be read
EnterCopy(rnd) ==
    /\ read_config_id(repoDirs, instance.repo_dir) # NoFile
    /\ valid_config_id(read_config_id(repoDirs, instance.repo_dir)[1])
    /\ LET d == instance.repo_dir
           config_dir == configDirs[read_config_id(repoDirs, d)[1]]
       IN  /\ config_dir.metadata # NoFile
           /\ config_dir.metadata[1].path \notin {<<>>, <<d>>}
           /\ is_dir(repoDirs, config_dir.metadata[1].path[1])
           /\ can_create_in(repoDirs, d)
           /\ Resolve(repoDirs, config_dir.metadata[1].path[1]) # Resolve(repoDirs, d)
           /\ config_dir.config # NoFile
           /\ Enters(generate_config_id(rnd), config_dir.config, "handle_metadata_path")

WriterStep(pc, repos, configs) ==
    /\ writer' = [writer EXCEPT !.pc = pc]
    /\ repoDirs' = repos
    /\ configDirs' = configs
    /\ UNCHANGED <<instance, loaded>>
    /\ UNCHANGED <<opVars, wsVars, cliVars>>

\* fs::create_dir_all(&config_dir)
CreateDirAll ==
    /\ writer.pc = "create_dir_all"
    /\ WriterStep("metadata_temp", repoDirs,
                  [configDirs EXCEPT ![writer.config_id].exists = TRUE])

\* atomic_write: NamedTempFile::new_in(d), temp_file.write_all(content); the
\* temp file has a name of its own
WriteTempFile ==
    \/ /\ writer.pc = "metadata_temp"
       /\ WriterStep("metadata_persist", repoDirs, configDirs)
    \/ /\ writer.pc = "config_id_temp"
       /\ WriterStep(IF can_create_in(repoDirs, writer.d) THEN "config_id_persist"
                     ELSE "returned", repoDirs, configDirs)

\* mutant: the config-id file is written together with the metadata, before
\* config.toml
PersistMetadataAndConfigId ==
    /\ writer.pc = "metadata_persist"
    /\ WriterStep(IF writer.content # <<>> THEN "config_create" ELSE "config_id_temp",
                  atomic_write(FileSystem, writer.d, writer.config_id).fs.repos,
                  update_metadata(FileSystem, writer.config_id, writer.metadata).configs)

\* atomic_write of metadata.binpb: temp_file.persist(path)
PersistMetadata ==
    /\ writer.pc = "metadata_persist"
    /\ WriterStep(IF writer.content # <<>> THEN "config_create" ELSE "config_id_temp",
                  repoDirs, update_metadata(FileSystem, writer.config_id, writer.metadata).configs)

\* fs::write(&config_path, content): File::create(path) leaves an empty file
CreateConfigFile ==
    /\ writer.pc = "config_create"
    /\ WriterStep("config_write_all", repoDirs,
                  [configDirs EXCEPT ![writer.config_id].config = <<0>>])

\* fs::write(&config_path, content): write_all(content)
WriteConfigFile ==
    /\ writer.pc = "config_write_all"
    /\ WriterStep("config_id_temp", repoDirs,
                  [configDirs EXCEPT ![writer.config_id].config = writer.content])

\* atomic_write of config-id: temp_file.persist(path)
PersistConfigId ==
    /\ writer.pc = "config_id_persist"
    /\ WriterStep(IF writer.caller = "maybe_migrate_legacy_config" THEN "update_legacy"
                  ELSE "returned",
                  atomic_write(FileSystem, writer.d, writer.config_id).fs.repos, configDirs)

\* back in maybe_migrate_legacy_config: update_legacy_config_file
UpdateLegacy ==
    /\ writer.pc = "update_legacy"
    /\ WriterStep("returned",
                  update_legacy_config_file(FileSystem, writer.d, <<writer.config_id>>).repos,
                  configDirs)

\* the process stops between two writes
Crash ==
    /\ Running
    /\ WriterStep("crashed", repoDirs, configDirs)

\* one repo directory, not loaded yet, and an empty config root
SecureConfigInit ==
    /\ repoDirs = [d \in Dirs |-> IF d = 1 THEN EmptyDir ELSE NoDir]
    /\ configDirs = [config_id \in ConfigDirNames |-> NoConfigDir]
    /\ instance = NoInstance
    /\ loaded = Idle
    /\ writer = NoWriter

\* one repo directory, new or written by an old version, not loaded yet, and
\* an empty config root
CfgInit ==
    /\ commitStore = <<[change |-> 1, parent |-> 0, predecessor |-> 0]>>
    /\ opStore = <<[parents |-> <<>>, view |-> {}, desc |-> "root", arg |-> 0]>>
    /\ opHeads = {1}
    /\ uiStatus = <<>>
    /\ lastCmd = [name |-> "init", arg |-> 0, wrote |-> 0]
    /\ \E first \in {EmptyDir} \cup {LegacyDir(content) : content \in Contents} :
          repoDirs = [d \in Dirs |-> IF d = 1 THEN first ELSE NoDir]
    /\ configDirs = [config_id \in ConfigDirNames |-> NoConfigDir]
    /\ instance = NoInstance
    /\ loaded = Idle
    /\ writer = NoWriter
    /\ WorkspaceStoreInit
    /\ CliInit

\* ------------------------------------------------------------- commands

HeadOp == CHOOSE h \in opHeads : TRUE

Publish(tx, desc, name, arg) ==
    /\ commitStore' = tx.store
    /\ opStore' = Append(opStore, [parents |-> tx.parents, view |-> tx.heads,
                                   desc |-> desc, arg |-> 0])
    /\ opHeads' = update_op_heads(opHeads, SeqToSet(tx.parents), Len(opStore) + 1)
    /\ uiStatus' = <<>>
    /\ UNCHANGED <<cfgVars, wsVars, cliVars>>
    /\ lastCmd' = [name |-> name, arg |-> arg, wrote |-> Len(tx.store) - Len(commitStore)]

\* `jj new -m.. REV`: a new empty commit on top of a visible commit
CmdNew(c) ==
    /\ Cardinality(opHeads) = 1
    /\ Len(opStore) < MaxOps
    /\ c \in Visible(commitStore, opStore[HeadOp].view)
    /\ LET tx == start_repo_transaction(commitStore, opStore[HeadOp], HeadOp)
           commit == [change |-> NextChangeId(commitStore), parent |-> c, predecessor |-> 0]
       IN  /\ Len(commitStore) < MaxCommits
           /\ Publish([tx EXCEPT !.store = Append(@, commit),
                                  !.heads = HeadsOf(Append(tx.store, commit),
                                                    @ \cup {Len(tx.store) + 1})],
                       "new empty commit", "new", c)

\* `jj describe -m.. REV`: rewrite a visible commit and rebase its descendants
CmdDescribe(c) ==
    /\ Cardinality(opHeads) = 1
    /\ Len(opStore) < MaxOps
    /\ c \in Visible(commitStore, opStore[HeadOp].view)
    /\ LET tx == start_repo_transaction(commitStore, opStore[HeadOp], HeadOp)
           r  == rebase_descendants(rewrite_commit(tx, c, commitStore[c].parent), <<>>)
       IN  /\ Len(r.tx.store) <= MaxCommits
           /\ Publish(r.tx, "describe commit", "describe", c)

\* the operation a command has just written does not make it into the
\* operation log: its file under op_heads/heads is renamed to its parent's id
RemoveOpHead ==
    /\ Cardinality(opHeads) = 1
    /\ lastCmd.name \in {"new", "describe"}
    /\ Len(opStore[HeadOp].parents) = 1
    /\ opHeads' = {opStore[HeadOp].parents[1]}
    /\ uiStatus' = <<>>
    /\ UNCHANGED <<cfgVars, wsVars, cliVars>>
    /\ lastCmd' = [name |-> "remove head", arg |-> HeadOp, wrote |-> 0]
    /\ UNCHANGED <<commitStore, opStore>>

\* mutant: the heads are updated and never resolved
cmd_op_integrate_no_resolve(target) ==
    /\ Cardinality(opHeads) = 1
    /\ target \in 1..Len(opStore)
    /\ opHeads' = update_op_heads(opHeads, SeqToSet(opStore[target].parents), target)
    /\ uiStatus' = <<>>
    /\ UNCHANGED <<cfgVars, wsVars, cliVars>>
    /\ lastCmd' = [name |-> "op integrate", arg |-> target, wrote |-> 0]
    /\ UNCHANGED <<opStore, commitStore>>

\* mutant: the operation is only inserted when all its parents are heads
cmd_op_integrate_checked(target) ==
    /\ Cardinality(opHeads) = 1
    /\ target \in 1..Len(opStore)
    /\ IF SeqToSet(opStore[target].parents) \subseteq opHeads
       THEN \E r \in resolve_op_heads(
                  update_op_heads(opHeads, SeqToSet(opStore[target].parents), target),
                  opStore, commitStore) :
              /\ Len(r.ops) <= MaxOps
              /\ Len(r.store) <= MaxCommits
              /\ opHeads' = r.heads
              /\ opStore' = r.ops
              /\ commitStore' = r.store
              /\ uiStatus' = r.status
       ELSE /\ uiStatus' = <<>>
            /\ UNCHANGED <<opHeads, opStore, commitStore>>
    /\ UNCHANGED <<cfgVars, wsVars, cliVars>>
    /\ lastCmd' = [name |-> "op integrate", arg |-> target,
                   wrote |-> Len(commitStore') - Len(commitStore)]

\* `jj op integrate OP`
cmd_op_integrate(target) ==
    /\ Cardinality(opHeads) = 1
    /\ target \in 1..Len(opStore)
    /\ \E r \in resolve_op_heads(
                  update_op_heads(opHeads, SeqToSet(opStore[target].parents), target),
                  opStore, commitStore) :
          /\ Len(r.ops) <= MaxOps
          /\ Len(r.store) <= MaxCommits
          /\ opHeads' = r.heads
          /\ opStore' = r.ops
          /\ commitStore' = r.store
          /\ uiStatus' = r.status
    /\ UNCHANGED <<cfgVars, wsVars, cliVars>>
    /\ lastCmd' = [name |-> "op integrate", arg |-> target,
                   wrote |-> Len(commitStore') - Len(commitStore)]

\* the repository `jj git init` leaves: the root operation with the empty
\* view, and "add workspace" with the first working-copy commit
OpLogInit ==
    /\ commitStore = <<[change |-> 1, parent |-> 0, predecessor |-> 0]>>
    /\ opStore = <<[parents |-> <<>>, view |-> {}, desc |-> "root", arg |-> 0],
                   [parents |-> <<1>>, view |-> {1}, desc |-> "add workspace", arg |-> 0]>>
    /\ opHeads = {2}
    /\ uiStatus = <<>>
    /\ lastCmd = [name |-> "init", arg |-> 0, wrote |-> 0]

RepoInit ==
    /\ OpLogInit
    /\ SecureConfigInit
    /\ WorkspaceStoreInit
    /\ CliInit

OpInit == RepoInit

OpNext ==
    \/ \E c \in 1..MaxCommits : CmdNew(c)
    \/ \E c \in 1..MaxCommits : CmdDescribe(c)
    \/ RemoveOpHead
    \/ \E target \in 1..MaxOps : cmd_op_integrate(target)

OpSpec == OpInit /\ [][OpNext]_vars


\* ------------------------------------------------------------------------
\* Properties of op integrate
\* ------------------------------------------------------------------------

IsIntegrateOf(cmd, t) == cmd.name = "op integrate" /\ cmd.arg = t
ReconcileDesc == "reconcile divergent operations"
MergeOps == {m \in 1..Len(opStore) : opStore[m].desc = ReconcileDesc}

\* the operations of S that have no descendant in S
OpDagHeads(ops, S) == {h \in S : \A g \in S \ {h} : h \notin OpAncestors(ops, g)}

\* the youngest operation every parent of merge operation m descends from
MergeBase(m) ==
    Max({c \in 1..Len(opStore) :
           \A i \in 1..Len(opStore[m].parents) : c \in OpAncestors(opStore, opStore[m].parents[i])})

\* what a side (head h) made of commit c of the base view b
SideRewrites(c, b, h) ==
    {x \in Visible(commitStore, opStore[h].view) \ Visible(commitStore, opStore[b].view) :
        commitStore[x].change = commitStore[c].change}
RewrittenBySide(c, b, h) ==
    /\ c \in Visible(commitStore, opStore[b].view)
    /\ c \notin Visible(commitStore, opStore[h].view)
    /\ SideRewrites(c, b, h) # {}

RECURSIVE PredChain(_)
\* a commit and the commits it was rewritten from
PredChain(y) == IF y = 0 THEN {} ELSE {y} \cup PredChain(commitStore[y].predecessor)

\* C1: when op integrate OP leaves two or more heads (operations without a
\* descendant) in the heads set, it writes exactly one new operation,
\* "reconcile divergent operations", whose parents are exactly those heads,
\* and that operation is the single head of the log afterwards.
C1_IntegrateReconciles ==
    [][\A t \in 1..Len(opStore) :
         (IsIntegrateOf(lastCmd', t)
            /\ Cardinality(OpDagHeads(opStore, opHeads \cup {t})) >= 2)
         => /\ Len(opStore') = Len(opStore) + 1
            /\ SubSeq(opStore', 1, Len(opStore)) = opStore
            /\ opStore'[Len(opStore')].desc = ReconcileDesc
            /\ SeqToSet(opStore'[Len(opStore')].parents) = OpDagHeads(opStore, opHeads \cup {t})
            /\ Len(opStore'[Len(opStore')].parents) = Cardinality(OpDagHeads(opStore, opHeads \cup {t}))
            /\ opHeads' = {Len(opStore')}]_opVars

\* C1 witness: an integrate has just written the merge of two heads, now the
\* single head.
C1_Witness ==
    /\ lastCmd.name = "op integrate"
    /\ opHeads = {Len(opStore)}
    /\ opStore[Len(opStore)].desc = ReconcileDesc
    /\ Len(opStore[Len(opStore)].parents) >= 2
    /\ lastCmd.arg \in SeqToSet(opStore[Len(opStore)].parents)

\* C2: op integrate on an operation the log already references (a head or an
\* ancestor of a head) changes neither the heads set nor the operation store.
C2_IntegratedIsNoOp ==
    [][\A t \in 1..Len(opStore) :
         (IsIntegrateOf(lastCmd', t) /\ t \in Referenced(opStore, opHeads))
         => (opHeads' = opHeads /\ opStore' = opStore /\ commitStore' = commitStore)]_opVars

\* C2 witness: an integrate of a strict ancestor of the head has run and
\* merged nothing.
C2_Witness ==
    /\ lastCmd.name = "op integrate"
    /\ uiStatus = <<>>
    /\ lastCmd.arg \notin opHeads
    /\ lastCmd.arg \in Referenced(opStore, opHeads)

\* C3 as claimed: when some parent of OP is not a current head, op integrate
\* leaves the heads set unchanged (OP is not inserted).
C3_ParentsMustBeHeads ==
    [][\A t \in 1..Len(opStore) :
         (IsIntegrateOf(lastCmd', t) /\ ~(SeqToSet(opStore[t].parents) \subseteq opHeads))
         => opHeads' = opHeads]_opVars

\* C3 amended: op integrate inserts OP whether or not its parents are current
\* heads: afterwards OP is referenced by the log, and an OP that was not
\* referenced before changes the heads set even when none of its parents was
\* a head.
C3_IntegrateInsertsRegardless ==
    [][\A t \in 1..Len(opStore) :
         IsIntegrateOf(lastCmd', t)
         => /\ t \in Referenced(opStore', opHeads')
            /\ (t \notin Referenced(opStore, opHeads) => opHeads' # opHeads)]_opVars

\* C3 witness: an operation whose parent was not a head has been integrated
\* and is now a parent of the merge at the head of the log.
C3_Witness ==
    /\ lastCmd.name = "op integrate"
    /\ opStore[Len(opStore)].desc = ReconcileDesc
    /\ opHeads = {Len(opStore)}
    /\ lastCmd.arg \in SeqToSet(opStore[Len(opStore)].parents)
    /\ \E g \in SeqToSet(opStore[Len(opStore)].parents) \ {lastCmd.arg} :
          SeqToSet(opStore[lastCmd.arg].parents) \subseteq OpAncestors(opStore, g) \ {g}

\* the commits of the base view that two different parents of merge m both
\* rewrote
BothRewrote(m) ==
    {c \in 1..Len(commitStore) :
        \E i, j \in 1..Len(opStore[m].parents) :
            /\ i < j
            /\ RewrittenBySide(c, MergeBase(m), opStore[m].parents[i])
            /\ RewrittenBySide(c, MergeBase(m), opStore[m].parents[j])}

\* C4: when two reconciled operations each rewrote the same change, the view
\* of the merge shows, for every rewrite of either side, a commit of that
\* change that is this rewrite (or its rebase), and different ones for the two
\* sides: the change is divergent and neither rewrite is lost.
C4_BothRewritesKept ==
    \A m \in MergeOps :
      \A i, j \in 1..Len(opStore[m].parents) :
        \A c \in 1..Len(commitStore) :
          (/\ i < j
           /\ RewrittenBySide(c, MergeBase(m), opStore[m].parents[i])
           /\ RewrittenBySide(c, MergeBase(m), opStore[m].parents[j]))
          => \A x1 \in SideRewrites(c, MergeBase(m), opStore[m].parents[i]),
                x2 \in SideRewrites(c, MergeBase(m), opStore[m].parents[j]) :
               \E y1, y2 \in Visible(commitStore, opStore[m].view) :
                  /\ y1 # y2
                  /\ x1 \in PredChain(y1)
                  /\ x2 \in PredChain(y2)
                  /\ commitStore[y1].change = commitStore[c].change
                  /\ commitStore[y2].change = commitStore[c].change

\* C4 witness: a merge operation whose two parents both rewrote a commit.
C4_Witness ==
    \E m \in MergeOps : lastCmd.name = "op integrate" /\ m = Len(opStore) /\ BothRewrote(m) # {}

\* the commits some parent of merge m rewrote
RewrittenBelow(m) ==
    {c \in 1..Len(commitStore) :
        \E i \in 1..Len(opStore[m].parents) :
            RewrittenBySide(c, MergeBase(m), opStore[m].parents[i])}

NoStaleParent ==
    \A m \in MergeOps :
        LET rewritten == RewrittenBelow(m)
        IN  \A y \in Visible(commitStore, opStore[m].view) :
                commitStore[y].parent \notin rewritten

RECURSIVE SumRebased(_)
SumRebased(status) ==
    IF status = <<>> THEN 0
    ELSE (IF Head(status).msg = "Rebased" THEN Head(status).n ELSE 0) + SumRebased(Tail(status))

\* C5: in the view of a merge written by op integrate no visible commit has
\* as parent a commit that one of the merged operations rewrote, and the
\* "Rebased n descendant commits" lines of an integrate name exactly the
\* commits it wrote, none of them with n = 0.
C5_DescendantsRebased ==
    /\ NoStaleParent
    /\ lastCmd.name = "op integrate"
       => /\ SumRebased(uiStatus) = lastCmd.wrote
          /\ \A k \in 1..Len(uiStatus) : uiStatus[k].msg = "Rebased" => uiStatus[k].n > 0

\* C5 witness: an integrate has rebased a descendant onto a rewritten parent
\* and reported it.
C5_Witness ==
    /\ lastCmd.name = "op integrate"
    /\ SumRebased(uiStatus) > 0
    /\ RewrittenBelow(Len(opStore)) # {}
    /\ \E y \in Visible(commitStore, opStore[Len(opStore)].view) :
          /\ commitStore[y].predecessor # 0
          /\ commitStore[commitStore[y].predecessor].parent \in RewrittenBelow(Len(opStore))

\* ------------------------------------------------------------------------
\* undo, redo, op revert
\* ------------------------------------------------------------------------

MaxSnapshots == 6
MaxUndos == 5
MaxReverts == 1
MaxRedoSnapshots == 4
MaxRedoUndos == 4
MaxRedos == 4

UNDO_OP_DESC_PREFIX == "undo: restore to operation"
REDO_OP_DESC_PREFIX == "redo: restore to operation"
REVERT_OP_DESC_PREFIX == "revert operation"
SNAPSHOT_OP_DESC == "snapshot working copy"

NumOps(ops, desc) == Cardinality({k \in 1..Len(ops) : ops[k].desc = desc})

\* a command that fails with a user error writes nothing
UserError(name, msg) ==
    /\ uiStatus' = <<[msg |-> msg, n |-> 0]>>
    /\ UNCHANGED <<cfgVars, wsVars, cliVars>>
    /\ lastCmd' = [name |-> name, arg |-> 0, wrote |-> 0]
    /\ UNCHANGED <<commitStore, opStore, opHeads>>

\* a transaction that only sets the view: the new operation on top of the
\* head shows the view of operation `restored`
RestoreView(restored, desc, name) ==
    /\ opStore' = Append(opStore, [parents |-> <<HeadOp>>, view |-> opStore[restored].view,
                                   desc |-> desc, arg |-> restored])
    /\ opHeads' = update_op_heads(opHeads, {HeadOp}, Len(opStore) + 1)
    /\ uiStatus' = <<[msg |-> "Restored to operation", n |-> restored]>>
    /\ UNCHANGED <<cfgVars, wsVars, cliVars>>
    /\ lastCmd' = [name |-> name, arg |-> restored, wrote |-> 0]
    /\ UNCHANGED commitStore

\* write_file("state", ..) and `jj debug snapshot`: the working-copy commit is
\* rewritten with the new content
CmdSnapshot(maxSnapshots) ==
    /\ Cardinality(opHeads) = 1
    /\ NumOps(opStore, SNAPSHOT_OP_DESC) < maxSnapshots
    /\ \E c \in opStore[HeadOp].view :
          LET tx == start_repo_transaction(commitStore, opStore[HeadOp], HeadOp)
              r  == rebase_descendants(rewrite_commit(tx, c, commitStore[c].parent), <<>>)
          IN  Publish(r.tx, SNAPSHOT_OP_DESC, "snapshot", c)

\* the operation a description "<prefix><id>" names, or o itself
strip_prefix(ops, o, prefix) == IF ops[o].desc = prefix THEN ops[o].arg ELSE o

\* mutant: the undo walker also recognizes reverts
undo_walker_sees_revert(ops, o) ==
    IF ops[o].desc \in {UNDO_OP_DESC_PREFIX, REVERT_OP_DESC_PREFIX} THEN ops[o].arg ELSE o

\* mutant: undo restores the parent of the head operation
undo_walker_off(ops, o) == o

\* the operation `undo` takes for an operation of the log: an undo operation
\* stands for the operation it restored
undo_walker(ops, o) == strip_prefix(ops, o, UNDO_OP_DESC_PREFIX)

\* `jj undo`
cmd_undo(maxUndos) ==
    /\ Cardinality(opHeads) = 1
    /\ NumOps(opStore, UNDO_OP_DESC_PREFIX) < maxUndos
    /\ LET op_to_undo == undo_walker(opStore, HeadOp)
       IN  IF Len(opStore[op_to_undo].parents) = 0
           THEN UserError("undo", "Cannot undo root operation")
           ELSE IF Len(opStore[op_to_undo].parents) > 1
           THEN UserError("undo", "Cannot undo a merge operation")
           ELSE RestoreView(undo_walker(opStore, opStore[op_to_undo].parents[1]),
                            UNDO_OP_DESC_PREFIX, "undo")

\* mutant: redo answers the head operation only
redo_walker_off(ops, o) == o

\* the operation `redo` takes for an operation of the log: a redo operation
\* stands for the operation it restored
redo_walker(ops, o) == strip_prefix(ops, o, REDO_OP_DESC_PREFIX)

\* mutant: redo restores the parent of whatever operation it finds
nothing_to_redo_never(ops, o) == FALSE

nothing_to_redo(ops, o) == ops[o].desc # UNDO_OP_DESC_PREFIX

\* `jj redo`
cmd_redo(maxRedos) ==
    /\ Cardinality(opHeads) = 1
    /\ NumOps(opStore, REDO_OP_DESC_PREFIX) < maxRedos
    /\ LET op_to_redo == redo_walker(opStore, HeadOp)
       IN  IF nothing_to_redo(opStore, op_to_redo) \/ Len(opStore[op_to_redo].parents) # 1
           THEN UserError("redo", "Nothing to redo")
           ELSE RestoreView(redo_walker(opStore, opStore[op_to_redo].parents[1]),
                            REDO_OP_DESC_PREFIX, "redo")

\* `jj op revert` (of the head operation): the changes of the operation are
\* taken out of the current view, which leaves the view of its parent
cmd_op_revert(maxReverts) ==
    /\ Cardinality(opHeads) = 1
    /\ NumOps(opStore, REVERT_OP_DESC_PREFIX) < maxReverts
    /\ IF Len(opStore[HeadOp].parents) = 0
       THEN UserError("op revert", "Cannot revert root operation")
       ELSE IF Len(opStore[HeadOp].parents) > 1
       THEN UserError("op revert", "Cannot revert a merge operation")
       ELSE /\ opStore' = Append(opStore, [parents |-> <<HeadOp>>,
                                           view |-> opStore[opStore[HeadOp].parents[1]].view,
                                           desc |-> REVERT_OP_DESC_PREFIX, arg |-> HeadOp])
            /\ opHeads' = update_op_heads(opHeads, {HeadOp}, Len(opStore) + 1)
            /\ uiStatus' = <<[msg |-> "Reverted operation", n |-> HeadOp]>>
            /\ UNCHANGED <<cfgVars, wsVars, cliVars>>
            /\ lastCmd' = [name |-> "op revert", arg |-> HeadOp, wrote |-> 0]
            /\ UNCHANGED commitStore

UndoInit == RepoInit

UndoNext ==
    \/ CmdSnapshot(MaxSnapshots)
    \/ cmd_undo(MaxUndos)
    \/ cmd_op_revert(MaxReverts)

UndoSpec == UndoInit /\ [][UndoNext]_vars

RedoInit == RepoInit

RedoNext ==
    \/ CmdSnapshot(MaxRedoSnapshots)
    \/ cmd_undo(MaxRedoUndos)
    \/ cmd_redo(MaxRedos)

RedoSpec == RedoInit /\ [][RedoNext]_vars


\* ------------------------------------------------------------------------
\* Properties of undo, redo, op revert
\* ------------------------------------------------------------------------

Last(s) == s[Len(s)]
Front(s) == SubSeq(s, 1, Len(s) - 1)
Kinds(ops) == [k \in 1..Len(ops) |-> ops[k].desc]

\* The undo stack and the redo stack of a linear log, by the kinds of the
\* operations alone.  The undo stack holds the views left by the operations
\* that are not undone, the current view on top: an ordinary operation pushes
\* its view and empties the redo stack, an undo moves the top of the undo
\* stack to the redo stack, a redo moves it back.
ReplayStep(r, op) ==
    IF op.desc = UNDO_OP_DESC_PREFIX
    THEN IF r.undo = <<>> THEN r
         ELSE [undo |-> Front(r.undo), redo |-> Append(r.redo, Last(r.undo))]
    ELSE IF op.desc = REDO_OP_DESC_PREFIX
    THEN IF r.redo = <<>> THEN r
         ELSE [undo |-> Append(r.undo, Last(r.redo)), redo |-> Front(r.redo)]
    ELSE [undo |-> Append(r.undo, op.view), redo |-> <<>>]

RECURSIVE Replay(_, _)
\* the stacks after each of the first k operations
Replay(ops, k) ==
    IF k = 1 THEN <<ReplayStep([undo |-> <<>>, redo |-> <<>>], ops[1])>>
    ELSE LET rs == Replay(ops, k - 1)
         IN  Append(rs, ReplayStep(rs[k - 1], ops[k]))

Stacks == Replay(opStore, Len(opStore))

\* the log of test_jump_over_old_undo_stack: A, B, C, D, undo, undo, E, F,
\* undo, undo, undo
JumpOverOldUndoStack ==
    <<"root", "add workspace",
      SNAPSHOT_OP_DESC, SNAPSHOT_OP_DESC, SNAPSHOT_OP_DESC, SNAPSHOT_OP_DESC,
      UNDO_OP_DESC_PREFIX, UNDO_OP_DESC_PREFIX,
      SNAPSHOT_OP_DESC, SNAPSHOT_OP_DESC,
      UNDO_OP_DESC_PREFIX, UNDO_OP_DESC_PREFIX, UNDO_OP_DESC_PREFIX>>

\* C6: every undo operation shows the view that existed before the most
\* recent ordinary operation not yet undone (the top of the undo stack after
\* the pop), whatever undo operations and undone operations lie in between;
\* after A, B, C, D, undo, undo, E, F the three further undos show the views
\* of E, of B and of A.
C6_UndoStack ==
    /\ LET stacks == Stacks
       IN  \A k \in 1..Len(opStore) :
              opStore[k].desc = UNDO_OP_DESC_PREFIX
              => /\ stacks[k].undo # <<>>
                 /\ Len(stacks[k - 1].undo) = Len(stacks[k].undo) + 1
                 /\ opStore[k].view = Last(stacks[k].undo)
    /\ Kinds(opStore) = JumpOverOldUndoStack
       => /\ opStore[7].view = opStore[5].view
          /\ opStore[8].view = opStore[4].view
          /\ opStore[11].view = opStore[9].view
          /\ opStore[12].view = opStore[4].view
          /\ opStore[13].view = opStore[3].view

\* C6 witness: the log of test_jump_over_old_undo_stack has been written, the
\* last undo having jumped over the old undo stack to the view of A.
C6_Witness ==
    /\ Kinds(opStore) = JumpOverOldUndoStack
    /\ lastCmd.name = "undo"
    /\ opStore[13].view = opStore[3].view
    /\ opStore[3].view # opStore[4].view

\* the log of test_jump_over_old_redo_stack: A, B, C, D, undo, undo, undo,
\* redo, redo, undo, redo, redo
JumpOverOldRedoStack ==
    <<"root", "add workspace",
      SNAPSHOT_OP_DESC, SNAPSHOT_OP_DESC, SNAPSHOT_OP_DESC, SNAPSHOT_OP_DESC,
      UNDO_OP_DESC_PREFIX, UNDO_OP_DESC_PREFIX, UNDO_OP_DESC_PREFIX,
      REDO_OP_DESC_PREFIX, REDO_OP_DESC_PREFIX,
      UNDO_OP_DESC_PREFIX,
      REDO_OP_DESC_PREFIX, REDO_OP_DESC_PREFIX>>

NothingToRedo == <<[msg |-> "Nothing to redo", n |-> 0]>>

\* C7: every redo operation inverts the most recent undo not yet redone: it
\* shows the view that undo had replaced (the top of the redo stack), redo
\* stacks already completed in between being jumped over; k undos directly
\* followed by k redos show, step by step, the views the undos had left and
\* end at the view before the first undo; and a redo fails only when no undo
\* is left to invert.
C7_RedoInvertsUndo ==
    /\ LET stacks == Stacks
       IN  \A k \in 1..Len(opStore) :
              opStore[k].desc = REDO_OP_DESC_PREFIX
              => /\ stacks[k - 1].redo # <<>>
                 /\ opStore[k].view = Last(stacks[k - 1].redo)
    /\ \A i \in 1..Len(opStore) : \A k \in 1..Len(opStore) :
          (/\ i + 2 * k <= Len(opStore)
           /\ \A m \in 1..k : /\ opStore[i + m].desc = UNDO_OP_DESC_PREFIX
                              /\ opStore[i + k + m].desc = REDO_OP_DESC_PREFIX)
          => \A m \in 1..k : opStore[i + k + m].view = opStore[i + k - m].view
    /\ (lastCmd.name = "redo" /\ uiStatus = NothingToRedo)
       => Last(Stacks).redo = <<>>
    /\ Kinds(opStore) = JumpOverOldRedoStack
       => /\ opStore[10].view = opStore[4].view
          /\ opStore[11].view = opStore[5].view
          /\ opStore[12].view = opStore[4].view
          /\ opStore[13].view = opStore[5].view
          /\ opStore[14].view = opStore[6].view

\* C7 witness: the log of test_jump_over_old_redo_stack has been written, the
\* last redo having jumped over two completed redo stacks to the view of D.
C7_Witness ==
    /\ Kinds(opStore) = JumpOverOldRedoStack
    /\ lastCmd.name = "redo"
    /\ opStore[14].view = opStore[6].view
    /\ opStore[6].view # opStore[5].view

\* C8: a redo run when no undo is left to invert (the redo stack is empty:
\* the head is an ordinary operation, or every undo has been redone) fails
\* with "Nothing to redo" and changes neither the operation store nor the
\* heads.
C8_NothingToRedo ==
    [][(lastCmd'.name = "redo" /\ Last(Stacks).redo = <<>>)
       => /\ uiStatus' = NothingToRedo
          /\ opStore' = opStore
          /\ opHeads' = opHeads
          /\ commitStore' = commitStore]_opVars

\* C8 witness: a redo has failed after the undos of the stack had all been
\* redone.
C8_Witness ==
    /\ lastCmd.name = "redo"
    /\ uiStatus = NothingToRedo
    /\ opStore[HeadOp].desc = REDO_OP_DESC_PREFIX
    /\ NumOps(opStore, UNDO_OP_DESC_PREFIX) = NumOps(opStore, REDO_OP_DESC_PREFIX)
    /\ NumOps(opStore, UNDO_OP_DESC_PREFIX) >= 2

\* C9: an undo whose parent operation is a revert shows the view of the
\* parent of the revert (the view before the revert), so it undoes the revert
\* itself.
C9_UndoIgnoresRevert ==
    \A k \in 1..Len(opStore) :
        (/\ opStore[k].desc = UNDO_OP_DESC_PREFIX
         /\ opStore[opStore[k].parents[1]].desc = REVERT_OP_DESC_PREFIX)
        => opStore[k].view = opStore[opStore[opStore[k].parents[1]].parents[1]].view

\* C9 witness: after A, B, op revert (showing A) the undo shows B again.
C9_Witness ==
    /\ lastCmd.name = "undo"
    /\ opStore[HeadOp].desc = UNDO_OP_DESC_PREFIX
    /\ opStore[opStore[HeadOp].parents[1]].desc = REVERT_OP_DESC_PREFIX
    /\ opStore[HeadOp].view # opStore[opStore[HeadOp].parents[1]].view
    /\ opStore[HeadOp].view # {}

\* ------------------------------------------------------------------------
\* secure config: the specification
\* ------------------------------------------------------------------------

CfgNext ==
    \/ \E d \in Dirs : new_repo(d)
    \/ \E rnd \in RandomBytes : CallMaybeLoadConfig(rnd)
    \/ \E rnd \in RandomBytes : CallLoadConfig(rnd)
    \/ \E from, to \in Dirs : CopyRepo(from, to)
    \/ \E from, to \in Dirs : MoveRepo(from, to)
    \/ \E from, to \in Dirs : AliasRepo(from, to)
    \/ \E config_id \in ConfigIds, content \in Contents : EditConfig(config_id, content)
    \/ \E config_id \in ConfigIds : RemoveConfigDir(config_id)
    \/ \E d \in Dirs : MakeReadOnly(d)

CfgSpec == CfgInit /\ [][CfgNext]_vars

\* copies and moves of repo directories, edits of the config, and calls of
\* load_config
CfgIsoNext ==
    \/ \E d \in Dirs : new_repo(d)
    \/ \E rnd \in RandomBytes : CallLoadConfig(rnd)
    \/ \E from, to \in Dirs : CopyRepo(from, to)
    \/ \E from, to \in Dirs : MoveRepo(from, to)
    \/ \E config_id \in ConfigIds, content \in Contents : EditConfig(config_id, content)

CfgIsoSpec == CfgInit /\ [][CfgIsoNext]_vars

\* calls in repo directories whose config-id file holds arbitrary content
CfgIdNext ==
    \/ \E d \in Dirs : new_repo(d)
    \/ \E rnd \in RandomBytes : CallMaybeLoadConfig(rnd)
    \/ \E rnd \in RandomBytes : CallLoadConfig(rnd)
    \/ \E d \in Dirs, content \in ConfigIds \cup ForeignConfigIds : WriteConfigId(d, content)

CfgIdSpec == CfgInit /\ [][CfgIdNext]_vars

\* generate_config write by write, with crashes, in new, legacy and copied
\* repo directories
CfgWriteNext ==
    \/ \E d \in Dirs : ~Running /\ new_repo(d)
    \/ \E from, to \in Dirs : ~Running /\ CopyRepo(from, to)
    \/ \E rnd \in RandomBytes : EnterInitial(rnd)
    \/ \E rnd \in RandomBytes : EnterMigration(rnd)
    \/ \E rnd \in RandomBytes : EnterCopy(rnd)
    \/ CreateDirAll
    \/ WriteTempFile
    \/ PersistMetadata
    \/ CreateConfigFile
    \/ WriteConfigFile
    \/ PersistConfigId
    \/ UpdateLegacy
    \/ Crash

CfgWriteSpec == CfgInit /\ [][CfgWriteNext]_vars

\* ------------------------------------------------------------------------
\* workspace store: the specification
\* ------------------------------------------------------------------------

\* processes that load the store of one repo, whose workspace_store directory
\* is not there yet or holds an empty index, and call it
WsInit ==
    /\ OpLogInit
    /\ SecureConfigInit
    /\ wsStore \in {[dir |-> FALSE, index |-> NoIndex, lock |-> 0],
                     [dir |-> TRUE, index |-> <<<<>>>>, lock |-> 0]}
    /\ wsProcs = [p \in Procs |-> NoProcess]
    /\ wsApplied = <<>>
    /\ CliInit

WsNext ==
    \/ \E p \in Procs : Load(p)
    \/ \E p \in Procs : CreateDir(p)
    \/ \E p \in Procs, name \in WorkspaceNames, path \in WorkspacePaths :
          Call(p, AddCall(name, path))
    \/ \E p \in Procs, names \in SUBSET WorkspaceNames : names # {} /\ Call(p, ForgetCall(names))
    \/ \E p \in Procs, old_name, new_name \in WorkspaceNames :
          Call(p, RenameCall(old_name, new_name))
    \/ \E p \in Procs : Lock(p)
    \/ \E p \in Procs : ReadStore(p)
    \/ \E p \in Procs : WriteStore(p)
    \/ \E p \in Procs : Unlock(p)
    \/ \E p \in Procs, name \in WorkspaceNames : GetWorkspacePath(p, name)

WsSpec == WsInit /\ [][WsNext]_vars

\* one process that loads the store and calls add, forget and rename one
\* after the other
WsSeqNext ==
    \/ Load(1)
    \/ CreateDir(1)
    \/ \E name \in WorkspaceNames, path \in WorkspacePaths : CallAlone(1, AddCall(name, path))
    \/ \E names \in SUBSET WorkspaceNames : names # {} /\ CallAlone(1, ForgetCall(names))
    \/ \E old_name, new_name \in WorkspaceNames : CallAlone(1, RenameCall(old_name, new_name))
    \/ Lock(1)
    \/ ReadStore(1)
    \/ WriteStore(1)
    \/ Unlock(1)

WsSeqSpec == WsInit /\ [][WsSeqNext]_vars

\* bookmark advance on a repo with any local bookmarks
AdvInit ==
    /\ OpLogInit
    /\ SecureConfigInit
    /\ WorkspaceStoreInit
    /\ BookmarkInit
    /\ ArrangeIdle
    /\ RefListIdle
    /\ TreeBuilderIdle
    /\ WcFileIdle
    /\ ProgressIdle

AdvNext ==
    \E names \in NamesArgs, to \in AdvCommits, from_revset \in FromRevsets :
       cmd_bookmark_advance(names, to, from_revset)

AdvSpec == AdvInit /\ [][AdvNext]_vars

\* State::new, edits of the parents, apply_changes and rebase_descendants on
\* any repo, as the unit tests of arrange.rs run them
ArrInit ==
    /\ OpLogInit
    /\ SecureConfigInit
    /\ WorkspaceStoreInit
    /\ BookmarkIdle
    /\ \E repo \in ArrRepos : arrange = [NoArrange EXCEPT !.pc = "init", !.repo = repo]
    /\ RefListIdle
    /\ TreeBuilderIdle
    /\ WcFileIdle
    /\ ProgressIdle

ArrNext ==
    \/ \E commits \in SUBSET ArrCommitIds : NewState(revset_iter(commits))
    \/ \E id \in ArrCommitIds, parent_ids \in EditLists(ArrCommitIds) :
          insert_parents(id, parent_ids)
    \/ \E keys \in KeyOrders : apply_changes(keys)
    \/ RebaseDescendants

ArrSpec == ArrInit /\ [][ArrNext]_vars

\* the Vecs of commits given to State::new when the order matters
OrderedInputs == {commits \in KeyOrders : Len(commits) <= MaxOrdered}

\* State::new, edits of the parents and of head_order, update_commit_order,
\* as test_update_commit_order_reorder runs them
ArrOrderNext ==
    \/ \E commits \in OrderedInputs : NewState(commits)
    \/ \E id \in ArrCommitIds, parent_ids \in EditLists(ArrCommitIds) :
          insert_parents(id, parent_ids)
    \/ \E head_order \in KeyOrders : assign_head_order(head_order)
    \/ update_commit_order

ArrOrderSpec == ArrInit /\ [][ArrOrderNext]_vars

\* the arrange command on any repo, with the key events of the TUI
ArrCmdNext ==
    \/ \E revisions \in SUBSET ArrCommitIds, immutable \in {{}, {1}} :
          cmd_arrange(revisions, immutable)
    \/ \E event \in KeyEvents : KeyEvent(event)
    \/ TuiFails

ArrCmdSpec == ArrInit /\ [][ArrCmdNext]_vars

\* sort on every list of refs that is sorted by name, with every list of keys
RefListInputs ==
    {items \in UNION {[1..n -> RefListItems] : n \in 0..MaxSortItems} : SortedByName(items)}

SortInit ==
    /\ OpLogInit
    /\ SecureConfigInit
    /\ WorkspaceStoreInit
    /\ BookmarkIdle
    /\ ArrangeIdle
    /\ RefListIdle
    /\ TreeBuilderIdle
    /\ WcFileIdle
    /\ ProgressIdle

\* The data of a listing is prepared, sorted by name, and handed to sort
prepare_data_and_sort ==
    /\ RefListIdle
    /\ \E items \in RefListInputs, sort_keys \in SortKeyLists : sort(items, sort_keys)

SortNext ==
    \/ prepare_data_and_sort
    \/ sort_pass
    \/ sort_return

SortSpec == SortInit /\ [][SortNext]_vars

\* A MergedTreeBuilder on any base tree, with any overrides
MtbInit ==
    /\ OpLogInit
    /\ SecureConfigInit
    /\ WorkspaceStoreInit
    /\ BookmarkIdle
    /\ ArrangeIdle
    /\ RefListIdle
    /\ TreeBuilderIdle
    /\ WcFileIdle
    /\ ProgressIdle

MtbNext ==
    \/ MergedTreeBuilder_new
    \/ \E path \in RepoPaths, values \in MergedTreeValues : set_or_remove(path, values)
    \/ write_tree

MtbSpec == MtbInit /\ [][MtbNext]_vars

\* A conflicted file is written to the working copy, edited, resolved
WcInit ==
    /\ OpLogInit
    /\ SecureConfigInit
    /\ WorkspaceStoreInit
    /\ CliInit

WcNext ==
    \/ materialize_conflict
    \/ snapshot_conflict
    \/ resolve_conflict

WcSpec == WcInit /\ [][WcNext]_vars

\* the progress of one snapshot: created, any calls of display at any of the
\* times, dropped
ProgressNext ==
    \/ \E has_output \in BOOLEAN, elapsed \in Elapsed : Progress_new(has_output, elapsed)
    \/ \E text \in TextLens, term_width \in TermWidths, elapsed \in Elapsed :
          display(text, term_width, elapsed)
    \/ Progress_drop

ProgressSpec == WcInit /\ [][ProgressNext]_vars

\* ------------------------------------------------------------------------
\* Properties of the secure config
\* ------------------------------------------------------------------------

\* a new instance for repo directory d, whose config-id names a config
\* directory that records another directory, which exists and is not d under
\* another name
CopiedRepo(d) ==
    /\ instance = [repo_dir |-> d, cache |-> <<>>]
    /\ read_config_id(repoDirs, d) # NoFile
    /\ configDirs[read_config_id(repoDirs, d)[1]].metadata # NoFile
    /\ LET got == configDirs[read_config_id(repoDirs, d)[1]].metadata[1].path
       IN  /\ got # <<>>
           /\ got[1] # d
           /\ is_dir(repoDirs, got[1])
           /\ Resolve(repoDirs, got[1]) # Resolve(repoDirs, d)

\* C10: load_config in a copied repo directory d succeeds with a copy
\* warning; the config-id file of d then holds a new id, different from the
\* old one, whose directory holds the old config.toml content and the
\* metadata path d; the directory of the old id is unchanged.
C10_CopyDetection ==
    [][\A d \in Dirs :
         (CopiedRepo(d) /\ loaded'.call = "load_config")
         => LET old == read_config_id(repoDirs, d)[1]
                new == read_config_id(repoDirs', d)
            IN  /\ loaded'.err = ""
                /\ new # NoFile
                /\ new[1] # old
                /\ loaded'.config_file = new
                /\ configDirs[old].config # NoFile
                /\ configDirs'[new[1]].config = configDirs[old].config
                /\ configDirs'[new[1]].metadata = <<[path |-> <<d>>]>>
                /\ loaded'.warnings = <<REPO_COPIED>>
                /\ configDirs'[old] = configDirs[old]]_vars

\* C10 failing input: load_config has failed in the copy of a repo whose
\* config directory, generated by load_config, holds no config.toml.
C10_Witness ==
    /\ loaded.call = "load_config"
    /\ loaded.err = "PathError"
    /\ CopiedRepo(loaded.dir)
    /\ can_create_in(repoDirs, loaded.dir)
    /\ configDirs[read_config_id(repoDirs, loaded.dir)[1]].config = NoFile

\* load_config has returned in repo directory d and was not answered from
\* the cache
LoadConfigRan(d) == loaded.call = "load_config" /\ loaded.dir = d /\ ~loaded.cached

\* the path the metadata named by the config-id file of d records: <<>> when
\* there is no such metadata or it records none
RecordedPath(fs, d) ==
    LET config_id == read_config_id(fs.repos, d)
    IN  IF config_id = NoFile \/ ~valid_config_id(config_id[1]) THEN <<>>
        ELSE IF fs.configs[config_id[1]].metadata = NoFile THEN <<>>
        ELSE fs.configs[config_id[1]].metadata[1].path

\* the config-id of d names metadata that records another path, where no
\* directory is
MovedRepo(fs, d) ==
    /\ RecordedPath(fs, d) # <<>>
    /\ RecordedPath(fs, d) # <<d>>
    /\ ~is_dir(fs.repos, RecordedPath(fs, d)[1])

\* C11: load_config in a moved repo directory d succeeds without a warning;
\* the config-id file of d is unchanged and names the returned config file;
\* the metadata of that config directory now records d, and nothing else in
\* the repo directories and the config root has changed.
C11_MoveDetection ==
    \A d \in Dirs :
      (LoadConfigRan(d) /\ MovedRepo(loaded.before, d))
      => LET old == read_config_id(loaded.before.repos, d)
         IN  /\ loaded.err = ""
             /\ read_config_id(repoDirs, d) = old
             /\ loaded.config_file = old
             /\ loaded.metadata = [path |-> <<d>>]
             /\ loaded.warnings = <<>>
             /\ repoDirs = loaded.before.repos
             /\ configDirs = [loaded.before.configs
                                EXCEPT ![old[1]].metadata = <<[path |-> <<d>>]>>]

\* C11 witness: load_config has returned in a moved repo directory, and the
\* metadata that recorded the old path records the new one.
C11_Witness ==
    /\ LoadConfigRan(loaded.dir)
    /\ MovedRepo(loaded.before, loaded.dir)
    /\ RecordedPath(FileSystem, loaded.dir) = <<loaded.dir>>
    /\ read_config_id(repoDirs, loaded.dir) = read_config_id(loaded.before.repos, loaded.dir)

\* the config-id of d names metadata that records another path, which leads
\* to the directory d leads to, where a temp file can be created
AliasedRepo(fs, d) ==
    /\ RecordedPath(fs, d) # <<>>
    /\ RecordedPath(fs, d) # <<d>>
    /\ is_dir(fs.repos, RecordedPath(fs, d)[1])
    /\ can_create_in(fs.repos, d)
    /\ Resolve(fs.repos, RecordedPath(fs, d)[1]) = Resolve(fs.repos, d)

\* C12: load_config in a repo directory d that is the recorded directory
\* under another name succeeds without a warning and returns the config file
\* the config-id file names and the recorded metadata; it writes nothing: no
\* config-id file, no config directory and no metadata has changed.
C12_AliasDetection ==
    \A d \in Dirs :
      (LoadConfigRan(d) /\ AliasedRepo(loaded.before, d))
      => /\ loaded.err = ""
         /\ loaded.config_file = read_config_id(loaded.before.repos, d)
         /\ loaded.metadata = [path |-> RecordedPath(loaded.before, d)]
         /\ loaded.warnings = <<>>
         /\ FileSystem = loaded.before

\* C12 witness: load_config has returned in an alias of the recorded
\* directory, and the metadata still records the other name.
C12_Witness ==
    /\ LoadConfigRan(loaded.dir)
    /\ loaded.err = ""
    /\ AliasedRepo(loaded.before, loaded.dir)
    /\ AliasedRepo(FileSystem, loaded.dir)

\* a call of either kind has returned in repo directory d and was not
\* answered from the cache
CallRan(d) == loaded.call # "none" /\ loaded.dir = d /\ ~loaded.cached

Contains(seq, x) == \E k \in 1..Len(seq) : seq[k] = x

\* writable repo directory d has a legacy config file and no config-id file
LegacyRepo(fs, d) ==
    /\ can_create_in(fs.repos, d)
    /\ read_config_id(fs.repos, d) = NoFile
    /\ read_legacy(fs, d) # NoFile

MissingMetadata(fs, d) ==
    /\ can_create_in(fs.repos, d)
    /\ read_config_id(fs.repos, d) # NoFile
    /\ valid_config_id(read_config_id(fs.repos, d)[1])
    /\ fs.configs[read_config_id(fs.repos, d)[1]].metadata = NoFile

LowercaseHexId(str) ==
    /\ Len(str) = 2 * CONFIG_ID_BYTES
    /\ \A k \in 1..Len(str) : \E h \in 1..Len(HexDigits) : str[k] = HexDigits[h]

\* C15: maybe_load_config that finds a config-id file whose content is not
\* exactly 2 * CONFIG_ID_BYTES lowercase hexadecimal digits returns
\* BadConfigIdError and leaves every file as it was.
C15_ConfigIdFormat ==
    \A d \in Dirs :
      (CallRan(d) /\ loaded.call = "maybe_load_config"
         /\ read_config_id(loaded.before.repos, d) # NoFile
         /\ ~LowercaseHexId(read_config_id(loaded.before.repos, d)[1]))
      => /\ loaded.err = "BadConfigIdError"
         /\ FileSystem = loaded.before

\* C15 failing input: maybe_load_config has accepted a config-id file that
\* holds upper-case hexadecimal digits, and has created its config directory.
C15_Witness ==
    /\ CallRan(loaded.dir)
    /\ loaded.call = "maybe_load_config"
    /\ read_config_id(loaded.before.repos, loaded.dir) # NoFile
    /\ ~LowercaseHexId(read_config_id(loaded.before.repos, loaded.dir)[1])
    /\ loaded.err = ""
    /\ loaded.config_file = read_config_id(loaded.before.repos, loaded.dir)
    /\ ~loaded.before.configs[loaded.config_file[1]].exists
    /\ configDirs[loaded.config_file[1]].exists

\* every other content that is not a lowercase id is rejected, and nothing is
\* written
C15_OtherContentRejected ==
    \A d \in Dirs :
      (CallRan(d) /\ read_config_id(loaded.before.repos, d) # NoFile
         /\ ~valid_config_id(read_config_id(loaded.before.repos, d)[1]))
      => /\ loaded.err = "BadConfigIdError"
         /\ FileSystem = loaded.before

\* C16: when load_config runs in repo directory d, not answered from the
\* cache, after the instance before it has returned a config file for d and
\* the file system has not been touched in between, then for every value of
\* the random generator it succeeds without a warning, returns the same
\* config file and the same metadata, and leaves the config-id file and the
\* whole config root as they were.
C16_LoadIdempotent ==
    \A d \in Dirs :
      (LoadConfigRan(d) /\ loaded.earlier # <<>> /\ loaded.earlier[1].config_file # <<>>)
      => /\ loaded.err = ""
         /\ loaded.config_file = loaded.earlier[1].config_file
         /\ loaded.metadata = loaded.earlier[1].metadata
         /\ loaded.warnings = <<>>
         /\ read_config_id(repoDirs, d) = loaded.config_file
         /\ FileSystem = loaded.before

\* C16 witness: load_config has run a second time in a copy, where the first
\* run had allocated a new config-id.
C16_Witness ==
    /\ LoadConfigRan(loaded.dir)
    /\ loaded.err = ""
    /\ loaded.earlier # <<>>
    /\ loaded.earlier[1].config_file = loaded.config_file
    /\ loaded.config_file # <<>>
    /\ \E d \in Dirs \ {loaded.dir} :
          /\ read_config_id(repoDirs, d) # NoFile
          /\ read_config_id(repoDirs, d) # loaded.config_file
          /\ repoDirs[d].kind = "dir"

\* the three files a call inside generate_config is about
ConfigIdFile(fs, d) == read_config_id(fs.repos, d)
MetadataFile(fs, config_id) == fs.configs[config_id].metadata
ConfigFile(fs, config_id) == fs.configs[config_id].config

\* C17: while a call is inside generate_config, and after it has crashed
\* there, each of config-id, metadata.binpb and config.toml holds either
\* what it held when the call entered (or is absent as it was) or the
\* complete content the call writes.
C17_AtomicWrites ==
    (Running \/ writer.pc = "crashed")
    => /\ ConfigIdFile(FileSystem, writer.d)
            \in {ConfigIdFile(writer.before, writer.d), <<writer.config_id>>}
       /\ MetadataFile(FileSystem, writer.config_id)
            \in {MetadataFile(writer.before, writer.config_id), <<writer.metadata>>}
       /\ ConfigFile(FileSystem, writer.config_id)
            \in {ConfigFile(writer.before, writer.config_id), writer.content}

\* C17 failing input: a call has crashed inside fs::write of a config.toml
\* that is not empty, and the file is there, empty.
C17_Witness ==
    /\ writer.pc = "crashed"
    /\ writer.content \notin {<<>>, <<0>>}
    /\ ConfigFile(writer.before, writer.config_id) = NoFile
    /\ ConfigFile(FileSystem, writer.config_id) = <<0>>

\* config-id and metadata.binpb, written with atomic_write, are never seen
\* half-written
C17_AtomicWriteFiles ==
    (Running \/ writer.pc = "crashed")
    => /\ ConfigIdFile(FileSystem, writer.d)
            \in {ConfigIdFile(writer.before, writer.d), <<writer.config_id>>}
       /\ MetadataFile(FileSystem, writer.config_id)
            \in {MetadataFile(writer.before, writer.config_id), <<writer.metadata>>}

\* a call that returns from generate_config has written what the call taken
\* as one step writes
WritesAgree ==
    [][(Running /\ writer'.pc = "returned")
       => LET g == generate_config(writer.before, writer.d, writer.config_id, writer.content,
                                   writer.metadata)
          IN  [repos |-> repoDirs', configs |-> configDirs']
                = IF g.err = "" /\ writer.caller = "maybe_migrate_legacy_config"
                  THEN update_legacy_config_file(g.fs, writer.d, g.path)
                  ELSE g.fs]_vars

\* ------------------------------------------------------------------------
\* Properties of the workspace store
\* ------------------------------------------------------------------------

RECURSIVE ApplyInTurn(_)
\* the index left by mutations applied one after the other to the empty index
ApplyInTurn(mutations) ==
    IF mutations = <<>> THEN <<>>
    ELSE Mutated(ApplyInTurn(Front(mutations)), Last(mutations).call)

\* C18: the index file always holds the result of applying every mutation
\* that has written it, one after the other in the order of their writes, to
\* the empty index; each mutation has read the result of all mutations
\* written before it, so none is lost.
C18_NoLostUpdate ==
    LET applied == wsApplied
    IN  /\ wsStore.index = NoIndex => applied = <<>>
        /\ wsStore.index # NoIndex => wsStore.index[1] = ApplyInTurn(applied)
        /\ \A k \in 1..Len(applied) : applied[k].read = ApplyInTurn(SubSeq(applied, 1, k - 1))

\* C18 witness: two processes have added two names, the second waiting for
\* the lock while the first wrote, and the index holds both.
C18_Witness ==
    /\ Len(wsApplied) = 2
    /\ wsApplied[1].call.op = "add"
    /\ wsApplied[2].call.op = "add"
    /\ wsApplied[1].call.name # wsApplied[2].call.name
    /\ wsApplied[1].by # wsApplied[2].by
    /\ wsApplied[2].by \in wsApplied[1].waiting
    /\ wsStore.index # NoIndex
    /\ get_workspace_path(wsStore.index[1], wsApplied[1].call.name) # <<>>
    /\ get_workspace_path(wsStore.index[1], wsApplied[2].call.name) # <<>>

\* process p has returned from get_workspace_path
Got(p) == wsProcs[p].pc = "ready" /\ wsProcs[p].call.op = "get_workspace_path"

\* C19: every get_workspace_path that has returned has succeeded, and has
\* answered from a complete index: the index as it was after some number of
\* the mutations written so far.
C19_ReaderSnapshot ==
    \A p \in Procs :
      Got(p)
      => /\ wsProcs[p].out.err = ""
         /\ \E k \in 0..Len(wsApplied) :
               /\ wsProcs[p].proto = ApplyInTurn(SubSeq(wsApplied, 1, k))
               /\ wsProcs[p].out.value = get_workspace_path(wsProcs[p].proto,
                                                            wsProcs[p].call.name)

\* C19 failing input: get_workspace_path has failed on a store loaded while
\* another process, inside load, has created the workspace_store directory
\* and not yet written the index.
C19_Witness ==
    \E p, q \in Procs :
      /\ Got(p)
      /\ wsProcs[p].out.err = "PathError"
      /\ wsProcs[q].call.op = "load"
      /\ wsProcs[q].pc \in {"lock", "write"}
      /\ wsStore.dir
      /\ wsStore.index = NoIndex

\* a get_workspace_path that finds the index file succeeds and answers from
\* the whole index as it is in the file
ReaderSeesWholeIndex ==
    [][\A p \in Procs :
         (wsStore.index # NoIndex /\ wsProcs'[p] # wsProcs[p]
            /\ wsProcs'[p].call.op = "get_workspace_path")
         => /\ wsProcs'[p].out.err = ""
            /\ wsProcs'[p].proto = wsStore.index[1]
            /\ wsStore.index[1] = ApplyInTurn(wsApplied)]_vars

\* process p has written the index in add and is about to return
AddSucceeds(p) ==
    /\ wsProcs[p].pc = "unlock"
    /\ wsProcs[p].call.op = "add"
    /\ wsProcs[p].out.err = ""

OfName(workspaces, name) == SelectSeq(workspaces, LAMBDA w : w.name = name)
OfOtherNames(workspaces, name) == SelectSeq(workspaces, LAMBDA w : w.name # name)

\* C20: when add(name, path) is about to return successfully, the index file
\* holds exactly one entry of that name; get_workspace_path(name) on it
\* returns a path relative to the repo directory that leads from there to
\* `path`; the entries of other names are those of the index add has read,
\* in the same order.
C20_AddReplaces ==
    \A p \in Procs :
      AddSucceeds(p)
      => LET name == wsProcs[p].call.name
             index == wsStore.index[1]
             got == get_workspace_path(index, name)
         IN  /\ Len(OfName(index, name)) = 1
             /\ got # <<>>
             /\ ~got[1].absolute
             /\ canonicalize_join(RepoPath, got[1]) = wsProcs[p].call.path
             /\ OfOtherNames(index, name) = OfOtherNames(wsProcs[p].proto, name)
             /\ \A other \in WorkspaceNames \ {name} :
                   get_workspace_path(index, other) = get_workspace_path(wsProcs[p].proto, other)

\* C20 witness: add is about to return after replacing the entry of its
\* name, which recorded another path.
C20_Witness ==
    \E p \in Procs :
      /\ AddSucceeds(p)
      /\ get_workspace_path(wsProcs[p].proto, wsProcs[p].call.name) # <<>>
      /\ get_workspace_path(wsProcs[p].proto, wsProcs[p].call.name)
           # get_workspace_path(wsStore.index[1], wsProcs[p].call.name)
      /\ Len(OfName(wsStore.index[1], wsProcs[p].call.name)) = 1

\* ------------------------------------------------------------------------
\* Properties of bookmark advance
\* ------------------------------------------------------------------------

\* a bookmark advance has run; bmLast describes it
AdvanceRan == bmLast.to # 0

\* the candidates the old target of which has a positive commit that is not
\* an ancestor of the target commit
Sideways(view, bookmarks, to) ==
    {name \in bookmarks : \E old \in added_ids(view[name]) : ~is_ancestor(old, to)}

\* C21: if the move of at least one candidate is not a fast-forward, the
\* command fails with 'Refusing to advance bookmark backwards or sideways'
\* naming the first such bookmark, no local bookmark has moved and no
\* operation was appended.
C21_AllOrNothing ==
    LET sideways == Sideways(bmLast.before, bmLast.matched, bmLast.to)
    IN  (AdvanceRan /\ sideways # {})
        => /\ bmLast.err = "Refusing to advance bookmark backwards or sideways"
           /\ bmLast.refused = Min(sideways)
           /\ bmRepo.view = bmLast.before
           /\ Len(bmRepo.ops) = bmLast.ops

\* C21 witness: a refused advance with two candidates, the first of which
\* would fast-forward and has not moved.
C21_Witness ==
    /\ AdvanceRan
    /\ bmLast.err # ""
    /\ \E name \in bmLast.matched :
          /\ name < bmLast.refused
          /\ is_fast_forward(bmLast.before[name], bmLast.to)
          /\ bmRepo.view[name] = bmLast.before[name]

\* C22: after a successful advance with candidates, every candidate has the
\* normal target T, one operation was appended and it holds the new view, and
\* every other local bookmark has the target it had.
C22_MovedInOneOperation ==
    (AdvanceRan /\ bmLast.err = "" /\ bmLast.matched # {})
    => /\ \A name \in bmLast.matched : bmRepo.view[name] = RefTargetNormal(bmLast.to)
       /\ \A name \in BookmarkNames \ bmLast.matched : bmRepo.view[name] = bmLast.before[name]
       /\ Len(bmRepo.ops) = bmLast.ops + 1
       /\ Last(bmRepo.ops).view = bmRepo.view
       /\ Last(bmRepo.ops).names = bmLast.matched

\* C22 witness: two bookmarks, one of them conflicted, moved by one
\* operation while a third name stays out of it.
C22_Witness ==
    /\ AdvanceRan
    /\ bmLast.err = ""
    /\ Cardinality(bmLast.matched) > 1
    /\ \E name \in bmLast.matched : Len(bmLast.before[name].adds) > 1
    /\ Len(bmRepo.ops) = bmLast.ops + 1
    /\ \A name \in bmLast.matched : bmRepo.view[name] = RefTargetNormal(bmLast.to)

\* the local bookmarks that pointed at the target commit before the command
AtTarget == {name \in BookmarkNames : as_normal(bmLast.before[name]) = <<bmLast.to>>}

InFrom ==
    {name \in local_bookmarks(bmLast.before) :
        added_ids(bmLast.before[name])
          \cap evaluate(bmLast.from, bmLast.before, bmLast.to) # {}}

\* C24 as claimed: with names given, the candidates are among the named
\* bookmarks with a target in F; a named bookmark with a target outside F
\* is not moved.
C24_NamesIntersectFrom ==
    (AdvanceRan /\ bmLast.names # <<>>)
    => /\ bmLast.matched \subseteq bmLast.names[1] \cap InFrom
       /\ \A name \in bmLast.names[1] \ InFrom : bmRepo.view[name] = bmLast.before[name]

\* C24: with names given, F is not read: the candidates are the local
\* bookmarks of these names that do not point at T already, whether or not
\* their target is in F; each is checked for fast-forward and moved when the
\* command succeeds.
C24_NamesIgnoreFrom ==
    (AdvanceRan /\ bmLast.names # <<>>)
    => /\ bmLast.matched = (bmLast.names[1] \cap local_bookmarks(bmLast.before)) \ AtTarget
       /\ Sideways(bmLast.before, bmLast.matched, bmLast.to) # {} <=> bmLast.err # ""
       /\ bmLast.err = ""
          => \A name \in bmLast.matched : bmRepo.view[name] = RefTargetNormal(bmLast.to)

\* C24 witness: a named bookmark with a target outside F has been moved.
C24_Witness ==
    /\ AdvanceRan
    /\ bmLast.names # <<>>
    /\ bmLast.err = ""
    /\ \E name \in bmLast.matched \ InFrom :
          /\ bmRepo.view[name] = RefTargetNormal(bmLast.to)
          /\ bmLast.before[name] # RefTargetNormal(bmLast.to)

\* ------------------------------------------------------------------------
\* Properties of arrange
\* ------------------------------------------------------------------------

\* new(y): the rewrite of y if y was rewritten, y itself otherwise
NewOf(mut_repo, y) == new_parent_id(mut_repo.parent_mapping, y)

\* the commit that stands for x has the edited parents of x, each replaced
\* by the commit that stands for it
ParentsAsEdited(mut_repo, x) ==
    LET edited == arrange.state.parents[x]
    IN  mut_repo.commits[NewOf(mut_repo, x)]
          = [i \in 1..Len(edited) |-> NewOf(mut_repo, edited[i])]

\* an external child with an edited parent that is an external child too
ExternalUnderExternal(x) ==
    /\ x \in arrange.state.external_children
    /\ SeqToSet(arrange.state.parents[x]) \cap arrange.state.external_children # {}

\* C25: after apply_changes, the commit that stands for a commit of C or E
\* has exactly the edited parents of that commit, rewritten parents replaced
\* by their rewrites, in the same order.
C25_ParentsAsEdited ==
    arrange.pc = "applied"
    => \A x \in DOMAIN arrange.state.parents : ParentsAsEdited(arrange.mut_repo, x)

\* C25 failing input: apply_changes has returned, and an external child
\* keeps as parent the old version of another external child that was
\* rewritten after it.
C25_Witness ==
    /\ arrange.pc = "applied"
    /\ \E x \in arrange.state.external_children :
          \E p \in SeqToSet(arrange.mut_repo.commits[NewOf(arrange.mut_repo, x)]) :
             /\ p \in arrange.state.external_children
             /\ p \in DOMAIN arrange.mut_repo.parent_mapping

\* apart from the external children under external children, C25 holds
ParentsAsEditedInSet ==
    arrange.pc = "applied"
    => \/ \E x \in DOMAIN arrange.state.parents : ExternalUnderExternal(x)
       \/ \A x \in DOMAIN arrange.state.parents : ParentsAsEdited(arrange.mut_repo, x)

\* the place of a commit in ordered_commit_ids
Place(id) == CHOOSE i \in 1..Len(arrange.order) : arrange.order[i] = id

\* C26: apply_changes takes every commit of C and E after all of its edited
\* parents that are in C or E, and once the command has rebased the
\* descendants every commit of C and E with a rewritten edited parent has
\* been rewritten exactly once.
C26_RewrittenOnce ==
    LET keys == DOMAIN arrange.state.parents
        rewritten == DOMAIN arrange.mut_repo.parent_mapping
    IN  /\ arrange.pc \in {"applied", "rebased"}
           => \A x \in keys : \A p \in SeqToSet(arrange.state.parents[x]) \cap keys :
                 Place(p) < Place(x)
        /\ arrange.pc = "rebased"
           => \A x \in keys :
                 SeqToSet(arrange.state.parents[x]) \cap rewritten # {}
                 => /\ x \in rewritten
                    /\ arrange.mut_repo.parent_mapping[x] \notin rewritten

\* C26 failing input: an external child was written by apply_changes before
\* its parent, another external child, and rebase_descendants has rewritten
\* what apply_changes wrote.
C26_Witness ==
    /\ arrange.pc = "rebased"
    /\ \E x \in arrange.state.external_children :
          /\ x \in DOMAIN arrange.applied.parent_mapping
          /\ arrange.applied.parent_mapping[x] \in DOMAIN arrange.mut_repo.parent_mapping
          /\ \E p \in SeqToSet(arrange.state.parents[x]) \cap arrange.state.external_children :
                Place(x) < Place(p)

\* the order of apply_changes follows the edited parents that are in C, and
\* no commit of C is rewritten twice
RewrittenOnceInSet ==
    LET keys == DOMAIN arrange.state.parents
        rewritten == DOMAIN arrange.mut_repo.parent_mapping
    IN  arrange.pc \in {"applied", "rebased"}
        => /\ \A x \in keys :
                 \A p \in SeqToSet(arrange.state.parents[x]) \cap arrange.state.commits :
                    Place(p) < Place(x)
           /\ \A x \in arrange.state.commits \cap rewritten :
                 arrange.mut_repo.parent_mapping[x] \notin rewritten
           /\ (\A x \in keys : ~ExternalUnderExternal(x))
                 => \A x \in keys \cap rewritten :
                       arrange.mut_repo.parent_mapping[x] \notin rewritten

\* C27: a transaction exists only after the TUI returned on an unmodified
\* press of `c`; when the command has ended in any other way (immutable or
\* gapped or empty revisions, `q`, a TUI error) there is no transaction, no
\* commit was written and no operation was appended.
C27_TransactionOnlyOnConfirm ==
    /\ arrange.tx # "none"
       => /\ arrange.pc = "done"
          /\ arrange.state # <<>>
          /\ arrange.event = [code |-> "c", modifiers |-> "NONE", release |-> FALSE]
          /\ arrange.err = ""
    /\ (arrange.pc = "done"
          /\ arrange.event # [code |-> "c", modifiers |-> "NONE", release |-> FALSE])
       => /\ arrange.tx = "none"
          /\ arrange.mut_repo = MutableRepo(<<>>)
          /\ arrange.ops = 0
          /\ arrange.err # "" \/ arrange.status = "No revisions to arrange."

\* C27 witness: the command has ended with a transaction after the TUI had
\* passed over other key events; no commit was rewritten.
C27_Witness ==
    /\ arrange.pc = "done"
    /\ arrange.tx = "finished"
    /\ arrange.keys = MaxKeys
    /\ arrange.mut_repo.commits = arrange.repo

\* C27, the other paths: the command has ended on `q` after the TUI was
\* shown, with nothing written.
CanceledWithoutTransaction ==
    (arrange.pc = "done" /\ arrange.err = "Canceled by user")
    => /\ arrange.event = [code |-> "q", modifiers |-> "NONE", release |-> FALSE]
       /\ arrange.tx = "none"
       /\ arrange.ops = 0

\* ------------------------------------------------------------------------
\* Properties of sort
\* ------------------------------------------------------------------------

\* The value an item has under a key: for Name the rank of (name, remote)
\* with the local ref first, for a commit attribute 0 when the primary ref
\* has no target ('absent') and the attribute of its commit otherwise
ValueUnder(sort_key, item) ==
    IF ~is_commit_dependant(sort_key)
      THEN item.name * (MaxRemotes + 1) + item.remote_name
    ELSE IF item.target = <<>> THEN 0
    ELSE LET commit == SortCommits[Head(item.target)]
         IN  CASE sort_key \in {"AuthorName", "AuthorNameDesc"} -> commit.author.name
               [] sort_key \in {"AuthorEmail", "AuthorEmailDesc"} -> commit.author.email
               [] sort_key \in {"AuthorDate", "AuthorDateDesc"} -> commit.author.timestamp
               [] sort_key \in {"CommitterName", "CommitterNameDesc"} -> commit.committer.name
               [] sort_key \in {"CommitterEmail", "CommitterEmailDesc"} -> commit.committer.email
               [] sort_key \in {"CommitterDate", "CommitterDateDesc"} -> commit.committer.timestamp

\* a comes before b under the key: smaller when ascending (absent first),
\* greater when descending (absent last)
BeforeUnder(sort_key, a, b) ==
    IF is_reverse(sort_key)
      THEN ValueUnder(sort_key, a) > ValueUnder(sort_key, b)
      ELSE ValueUnder(sort_key, a) < ValueUnder(sort_key, b)

TiedUnder(sort_key, a, b) == ValueUnder(sort_key, a) = ValueUnder(sort_key, b)

\* Lexicographic order, the first key most significant
LexBefore(sort_keys, a, b) ==
    \E k \in 1..Len(sort_keys) :
       /\ BeforeUnder(sort_keys[k], a, b)
       /\ \A j \in 1..(k - 1) : TiedUnder(sort_keys[j], a, b)

LexTied(sort_keys, a, b) == \A k \in 1..Len(sort_keys) : TiedUnder(sort_keys[k], a, b)

Sorted == refList.pc = "sorted"

\* C28: for every list of sort keys and every input sorted by name, sort
\* yields a permutation of the input in the lexicographic order of the keys
\* (first key most significant, each ascending or descending as asked), ties
\* in their input order, an item without target before all present values
\* under an ascending commit attribute and after them under a descending one.
C28_SortLexicographic ==
    Sorted =>
      LET input == refList.input
          order == refList.order
      IN  /\ Len(order) = Len(input)
          /\ SeqToSet(order) = 1..Len(input)
          /\ \A i, j \in 1..Len(order) :
                i < j =>
                  \/ LexBefore(refList.sort_keys, input[order[i]], input[order[j]])
                  \/ /\ LexTied(refList.sort_keys, input[order[i]], input[order[j]])
                     /\ order[i] < order[j]

\* Sorted by an ascending commit attribute and then a second key: an item
\* without target came first, a pair was decided by the second key, a tied
\* pair kept its input order, and the list changed
C28_Witness ==
    /\ Sorted
    /\ Len(refList.sort_keys) = 2
    /\ is_commit_dependant(refList.sort_keys[1]) /\ ~is_reverse(refList.sort_keys[1])
    /\ Len(refList.order) = 3
    /\ refList.input[refList.order[1]].target = <<>>
    /\ refList.input[refList.order[2]].target # <<>>
    /\ refList.order # <<1, 2, 3>>
    /\ \E i \in 1..2 :
          /\ TiedUnder(refList.sort_keys[1], refList.input[refList.order[i]],
                       refList.input[refList.order[i + 1]])
          /\ BeforeUnder(refList.sort_keys[2], refList.input[refList.order[i]],
                         refList.input[refList.order[i + 1]])

\* With a descending commit attribute the items without target are last
AbsentLastDescending ==
    (Sorted /\ refList.sort_keys # <<>> /\ is_commit_dependant(refList.sort_keys[1])
            /\ is_reverse(refList.sort_keys[1])) =>
      \A i, j \in 1..Len(refList.order) :
         (refList.input[refList.order[i]].target = <<>>
            /\ refList.input[refList.order[j]].target # <<>>) => j < i

\* ------------------------------------------------------------------------
\* Properties of MergedTreeBuilder
\* ------------------------------------------------------------------------

Written == treeBuilder.pc = "written"

\* The overridden paths with a conflicted and with a resolved value
ConflictedOverrides ==
    {path \in DOMAIN treeBuilder.overrides : ~is_resolved(treeBuilder.overrides[path])}

ResolvedOverrides ==
    {path \in DOMAIN treeBuilder.overrides : is_resolved(treeBuilder.overrides[path])}

\* N: the larger of the number of sides of the base tree and the largest
\* number of sides of an override
SidesN ==
    Max({num_sides(treeBuilder.base_tree.tree_ids)}
          \cup {num_sides(treeBuilder.overrides[path]) : path \in DOMAIN treeBuilder.overrides})

\* The entry term i of an override holds once it is padded with absent
\* entries
PaddedTerm(values, i) == IF i <= Len(values) THEN values[i] ELSE 0

\* At every path with a conflicted override, every side tree holds the term
\* of the override for its side
SidesHoldOverride ==
    \A path \in ConflictedOverrides :
       \A i \in 1..(2 * SidesN - 1) :
          treeBuilder.new_tree_ids[i][path] = PaddedTerm(treeBuilder.overrides[path], i)

AsDocumented ==
    \A path \in ConflictedOverrides :
       num_sides(treeBuilder.overrides[path]) = num_sides(treeBuilder.base_tree.tree_ids)

\* With overrides as documented, or an override of at least as many sides as
\* the base tree, every side tree holds the override's value for its side
PaddedToNAsDocumented ==
    (Written /\ (AsDocumented \/ max_num_sides(treeBuilder.overrides) = SidesN)) =>
       (num_sides(treeBuilder.new_tree_ids) = SidesN /\ SidesHoldOverride)

\* The tree has no conflict at the path: the entries of its sides merge to
\* one value
NoConflictAt(tree_ids, path) == is_resolved(simplify(path_value(tree_ids, path)))

\* C30: for every base tree and every override set, a path overridden with
\* a resolved value holds that value in every side tree, and the tree
\* write_tree returns has no conflict at that path.
C30_ResolvedOverrideNoConflict ==
    Written =>
      \A path \in ResolvedOverrides :
         /\ \A i \in 1..Len(treeBuilder.new_tree_ids) :
               treeBuilder.new_tree_ids[i][path] = treeBuilder.overrides[path][1]
         /\ NoConflictAt(treeBuilder.tree.tree_ids, path)
         /\ \A i \in 1..Len(treeBuilder.tree.tree_ids) :
               treeBuilder.tree.tree_ids[i][path] = treeBuilder.overrides[path][1]

\* A conflicted base tree whose sides differ at a path, that path overridden
\* with a resolved value, and the tree returned still conflicted elsewhere
C30_Witness ==
    /\ Written
    /\ ~is_resolved(treeBuilder.tree.tree_ids)
    /\ \E path \in ResolvedOverrides :
          /\ treeBuilder.overrides[path][1] # 0
          /\ ~NoConflictAt(treeBuilder.base_tree.tree_ids, path)
          /\ NoConflictAt(treeBuilder.tree.tree_ids, path)

\* ------------------------------------------------------------------------
\* Properties of the conflict markers
\* ------------------------------------------------------------------------

Materialized == wcFile.pc = "materialized"

MinimalWithoutMarkerLines ==
    (Materialized /\ marker_lens(wcFile.sides) = {}) =>
       wcFile.conflict_marker_len = <<MIN_CONFLICT_MARKER_LEN>>

\* ------------------------------------------------------------------------
\* Properties of the order of the commits in arrange
\* ------------------------------------------------------------------------

\* update_commit_order has run after the last change of the parents
OrderUpdated == arrange.pc = "editing" /\ arrange.updated

\* the commits of C without a child in C under the edited parents
HeadsOfEdited == heads(arrange.state.commits, arrange.state.parents)

\* a sequence lists every element of a set once and nothing else
ListsOnce(order, set) ==
    /\ SeqToSet(order) = set
    /\ Len(order) = Cardinality(set)

\* every commit of the order comes before its parents in C
BeforeParents(order) ==
    \A i, j \in 1..Len(order) :
       order[j] \in SeqToSet(in_set_parents(arrange.state, order[i])) => i < j

HeadOrderExactAsConstructed ==
    (arrange.pc = "editing" /\ arrange.edits = 0) =>
       ListsOnce(arrange.state.head_order, HeadsOfEdited)

\* update_commit_order never changes head_order
UpdateKeepsHeadOrder ==
    [][(arrange.pc = "editing" /\ arrange'.updated /\ arrange'.state.parents = arrange.state.parents
        /\ arrange'.state.current_order # arrange.state.current_order)
       => arrange'.state.head_order = arrange.state.head_order]_vars

OrderCompleteFromHeads ==
    (OrderUpdated /\ SeqToSet(arrange.state.head_order) = HeadsOfEdited) =>
       /\ ListsOnce(arrange.state.current_order, arrange.state.commits)
       /\ BeforeParents(arrange.state.current_order)

\* Whatever head_order holds, current_order lists commits of C, none twice,
\* each before its parents in C
OrderOfReachedCommits ==
    OrderUpdated =>
       /\ SeqToSet(arrange.state.current_order) \subseteq arrange.state.commits
       /\ ListsOnce(arrange.state.current_order, SeqToSet(arrange.state.current_order))
       /\ BeforeParents(arrange.state.current_order)

\* The edit of test_update_commit_order_reorder with head_order assigned:
\* a commit that became a head is listed, and the order is complete
OrderWithAssignedHeads ==
    /\ OrderUpdated
    /\ arrange.edits > 0
    /\ SeqToSet(arrange.state.head_order) = HeadsOfEdited
    /\ \E id \in HeadsOfEdited : id \notin heads(arrange.state.commits, arrange.repo)
    /\ ListsOnce(arrange.state.current_order, arrange.state.commits)

\* ------------------------------------------------------------------------
\* Properties of the progress writer
\* ------------------------------------------------------------------------

\* C34: the progress writer is rate limited: no status text is written
\* earlier than the initial delay of 250 ms after the Progress was created,
\* any two status lines written are at least 1/30 s apart (one second
\* divided by 30, in the whole nanoseconds of a Duration), and a display
\* call that arrives before the next display time writes nothing and leaves
\* the next display time unchanged.
C34_RateLimited ==
    /\ \A i \in 1..Len(progress.written) :
          progress.written[i].at >= progress.created + INITIAL_DELAY
    /\ \A i, j \in 1..Len(progress.written) :
          i < j => progress.written[j].at - progress.written[i].at >= update_interval
    /\ \A k \in 1..Len(progress.last) :
          progress.last[k].now < progress.last[k].next_display_time =>
             /\ ~progress.last[k].wrote
             /\ progress.next_display_time = progress.last[k].next_display_time
             /\ Len(progress.written) = progress.last[k].lines

\* Two lines written exactly one interval apart, the first exactly at the
\* end of the initial delay, and a last call that came too early and wrote
\* nothing
C34_Witness ==
    /\ Len(progress.written) = 2
    /\ progress.written[1].at = progress.created + INITIAL_DELAY
    /\ progress.written[2].at = progress.written[1].at + update_interval
    /\ progress.last # <<>>
    /\ ~progress.last[1].wrote
    /\ progress.last[1].now = progress.next_display_time - 1

\* The interval falls short of 1/30 s by less than one nanosecond
IntervalInWholeNanos ==
    /\ UPDATE_HZ * update_interval <= NanosPerSec
    /\ UPDATE_HZ * (update_interval + 1) > NanosPerSec

\* The guard is installed exactly when a line was written, and the line is
\* cleared on drop exactly then; a line never exceeds the terminal
GuardIffWritten ==
    /\ progress.guard <=> progress.written # <<>>
    /\ progress.pc = "dropped" => (progress.cleared <=> progress.written # <<>>)
    /\ progress.pc = "none" => progress.written = <<>>

\* ------------------------------------------------------------------------
\* Properties of the generated config and of the isolation of repos
\* ------------------------------------------------------------------------

\* load_config has returned for a repo directory that had no config-id file
\* and no legacy config when it was called
LoadedWithoutConfig ==
    /\ loaded.call = "load_config"
    /\ ~loaded.cached
    /\ read_config_id(loaded.before.repos, loaded.dir) = NoFile
    /\ is_dir(loaded.before.repos, loaded.dir)
    /\ ~loaded.before.repos[Resolve(loaded.before.repos, loaded.dir)].legacy.exists

\* load_config has returned for a writable repo directory that was the copy
\* of a repo whose generated config had never been given any content
LoadedInFreshCopy ==
    /\ loaded.call = "load_config"
    /\ ~loaded.cached
    /\ can_create_in(loaded.before.repos, loaded.dir)
    /\ LET config_id == read_config_id(loaded.before.repos, loaded.dir)
       IN  /\ config_id # NoFile
           /\ valid_config_id(config_id[1])
           /\ loaded.before.configs[config_id[1]].metadata # NoFile
           /\ loaded.before.configs[config_id[1]].config \in {NoFile, <<0>>}
           /\ LET got == loaded.before.configs[config_id[1]].metadata[1].path
              IN  /\ got # <<>>
                  /\ got[1] # loaded.dir
                  /\ is_dir(loaded.before.repos, got[1])
                  /\ Resolve(loaded.before.repos, got[1])
                        # Resolve(loaded.before.repos, loaded.dir)
                  /\ read_config_id(loaded.before.repos, got[1]) = config_id

\* C35: load_config on a repo without any config generates an empty config:
\* after it returns, the config.toml at the returned path exists;
\* consequently load_config in a copy of such a never edited repo succeeds
\* with a new config-id and a copy warning rather than failing.
C35_EmptyConfigGenerated ==
    /\ (LoadedWithoutConfig /\ loaded.err = "") =>
          /\ loaded.config_file # <<>>
          /\ configDirs[loaded.config_file[1]].config # NoFile
    /\ LoadedInFreshCopy =>
          /\ loaded.err = ""
          /\ loaded.warnings = <<REPO_COPIED>>
          /\ read_config_id(repoDirs, loaded.dir) = loaded.config_file

\* load_config has generated a config for a repo without any: the config
\* directory holds the metadata and the config-id file names it, but there
\* is no config.toml at the path returned
C35_Witness ==
    /\ LoadedWithoutConfig
    /\ loaded.err = ""
    /\ loaded.warnings = <<>>
    /\ read_config_id(repoDirs, loaded.dir) = loaded.config_file
    /\ configDirs[loaded.config_file[1]].metadata = <<[path |-> <<loaded.dir>>]>>
    /\ configDirs[loaded.config_file[1]].config = NoFile

\* The copy of a repo whose config.toml exists, even empty, is detected
FreshCopyWithConfigFile ==
    (LoadedInFreshCopy
       /\ loaded.before.configs[read_config_id(loaded.before.repos, loaded.dir)[1]].config # NoFile)
    => /\ loaded.err = ""
       /\ loaded.warnings = <<REPO_COPIED>>
       /\ read_config_id(repoDirs, loaded.dir) = loaded.config_file
       /\ configDirs[loaded.config_file[1]].config = <<0>>

\* load_config has run, after the last change made to the file system from
\* outside, in every repo directory that exists and is writable
AllLoadedSince ==
    /\ loaded.call # "none"
    /\ \A d \in Dirs : (repoDirs[d].kind = "dir" /\ repoDirs[d].writable) => d \in loaded.since

\* no two distinct repo directories, neither an alias, hold the same
\* config-id
Isolated ==
    \A d1, d2 \in Dirs :
       (d1 # d2 /\ repoDirs[d1].kind = "dir" /\ repoDirs[d2].kind = "dir"
          /\ repoDirs[d1].config_id # NoFile)
       => repoDirs[d1].config_id # repoDirs[d2].config_id

\* C37: after any sequence of repo copies, moves and load_config calls,
\* once each existing writable repo directory has run load_config after the
\* last file-system change, no two distinct, non-aliased repo directories
\* hold the same config-id.
C37_ConfigIsolation == AllLoadedSince => Isolated

\* A repo and its copy, both writable, load_config run in both after the
\* copy, the config-id file of both naming the same config directory, which
\* holds no config.toml
C37_Witness ==
    /\ AllLoadedSince
    /\ loaded.since = {1, 2}
    /\ repoDirs[1].kind = "dir" /\ repoDirs[2].kind = "dir"
    /\ repoDirs[1].config_id # NoFile
    /\ repoDirs[1].config_id = repoDirs[2].config_id
    /\ configDirs[repoDirs[1].config_id[1]].config = NoFile
    /\ loaded.err = "PathError"

\* The repos are isolated when every call of load_config succeeded and drew
\* an unused id
IsolatedWhenLoaded == (AllLoadedSince /\ loaded.clean) => Isolated

\* A repo and its copy, loaded in both, under different config-ids
IsolatedCopies ==
    /\ AllLoadedSince
    /\ loaded.clean
    /\ loaded.since = {1, 2}
    /\ loaded.warnings = <<REPO_COPIED>>
    /\ repoDirs[1].config_id # repoDirs[2].config_id

\* ------------------------------------------------------------------------
\* Properties of the order of the writes of generate_config
\* ------------------------------------------------------------------------

\* the config directory of the call holds the complete metadata, and the
\* complete config.toml when the call writes one
ConfigDirWritten ==
    /\ configDirs[writer.config_id].exists
    /\ configDirs[writer.config_id].metadata = <<writer.metadata>>
    /\ writer.content # <<>> => configDirs[writer.config_id].config = writer.content

\* C38: when a configuration is created (initial generation, legacy
\* migration, copy), the config-id file is written last: at every
\* intermediate point, a failure or crash between steps included, the
\* config-id of the repo is still its previous value (or absent), or names a
\* config directory whose metadata.binpb, and config.toml when content is
\* copied, has been completely written.
C38_ConfigIdWrittenLast ==
    writer.pc # "idle"
    => \/ repoDirs[Resolve(repoDirs, writer.d)].config_id
            = writer.before.repos[Resolve(repoDirs, writer.d)].config_id
       \/ /\ repoDirs[Resolve(repoDirs, writer.d)].config_id = <<writer.config_id>>
          /\ ConfigDirWritten

\* A call for a copied repo that stopped inside fs::write: the new config
\* directory holds the metadata and an empty config.toml where content is to
\* come, and the config-id file still names the old directory
C38_Witness ==
    /\ writer.pc = "crashed"
    /\ writer.caller = "handle_metadata_path"
    /\ writer.content = <<1>>
    /\ configDirs[writer.config_id].metadata = <<writer.metadata>>
    /\ configDirs[writer.config_id].config = <<0>>
    /\ repoDirs[writer.d].config_id # <<writer.config_id>>
    /\ repoDirs[writer.d].config_id = writer.before.repos[writer.d].config_id

\* A call that returned with the config-id file changed
ConfigIdWritten ==
    /\ writer.pc = "returned"
    /\ repoDirs[writer.d].config_id = <<writer.config_id>>
    /\ repoDirs[writer.d].config_id # writer.before.repos[writer.d].config_id
    /\ ConfigDirWritten

\* ------------------------------------------------------------------------
\* Properties of the conflict labels of the tree written
\* ------------------------------------------------------------------------

\* labels, if present, are as many as the sides of the tree
LabelsFit(tree) == tree.labels # unlabeled => Len(tree.labels) = num_sides(tree.tree_ids)

\* C36: if the tree returned by write_tree carries conflict labels, their
\* arity equals the tree's number of sides: the labels of the base tree are
\* kept only when the simplified result has as many sides as the labels, and
\* are discarded otherwise, also when the result is resolved.
C36_LabelsFitSides ==
    Written =>
      LET labels == treeBuilder.base_tree.labels
          simplified == simplify(treeBuilder.new_tree_ids)
      IN  /\ LabelsFit(treeBuilder.tree)
          /\ \A i \in 1..Len(treeBuilder.new) :
                /\ LabelsFit(treeBuilder.new[i])
                /\ treeBuilder.new[i].tree_ids = simplified
                /\ treeBuilder.new[i].labels
                     = IF Len(labels) = num_sides(simplified) THEN labels ELSE unlabeled
          /\ treeBuilder.tree.labels \in {labels, unlabeled}
          /\ Len(labels) # num_sides(simplified) => treeBuilder.tree.labels = unlabeled
          /\ is_resolved(treeBuilder.tree.tree_ids) => treeBuilder.tree.labels = unlabeled

\* A labelled base tree of three sides written with overrides that leave a
\* conflict of two sides: the labels are discarded
C36_Witness ==
    /\ Written
    /\ Len(treeBuilder.base_tree.labels) = 3
    /\ treeBuilder.overrides # <<>>
    /\ num_sides(simplify(treeBuilder.new_tree_ids)) = 2
    /\ ~is_resolved(treeBuilder.tree.tree_ids)
    /\ treeBuilder.tree.labels = unlabeled

\* A labelled base tree written with overrides and as many sides as before:
\* the labels are kept
LabelsKept ==
    /\ Written
    /\ treeBuilder.overrides # <<>>
    /\ treeBuilder.tree.tree_ids # treeBuilder.base_tree.tree_ids
    /\ treeBuilder.tree.labels # unlabeled
    /\ treeBuilder.tree.labels = treeBuilder.base_tree.labels

\* The tree given to MergedTree::new is of as many sides as the labels, and
\* resolve leaves fewer
ResolveReducesLabelled ==
    /\ Written
    /\ treeBuilder.new # <<>>
    /\ treeBuilder.new[1].labels # unlabeled
    /\ num_sides(treeBuilder.tree.tree_ids) < num_sides(treeBuilder.new[1].tree_ids)

\* ------------------------------------------------------------------------
\* Properties of the names in the workspace index
\* ------------------------------------------------------------------------

\* no two entries of the index carry the same name
UniqueNames(workspaces) ==
    \A i, j \in 1..Len(workspaces) : workspaces[i].name = workspaces[j].name => i = j

\* a rename whose new name was the name of another entry of the index it read
RenamedOntoExisting(mutation) ==
    /\ mutation.call.op = "rename"
    /\ mutation.call.name # mutation.call.new_name
    /\ \E i, j \in 1..Len(mutation.read) :
          /\ mutation.read[i].name = mutation.call.name
          /\ mutation.read[j].name = mutation.call.new_name

\* C39: starting from an empty index, after any sequence of add, forget and
\* rename calls, rename onto a name that already exists included, the index
\* contains at most one entry per workspace name.
C39_UniqueNames ==
    wsStore.index # NoIndex => UniqueNames(wsStore.index[1])

\* add, add of another name, and rename of the first name to the second:
\* the index holds two entries of the second name
C39_Witness ==
    /\ Len(wsApplied) = 3
    /\ wsApplied[1].call.op = "add"
    /\ wsApplied[2].call.op = "add"
    /\ RenamedOntoExisting(wsApplied[3])
    /\ UniqueNames(wsApplied[3].read)
    /\ wsStore.index # NoIndex
    /\ Len(wsStore.index[1]) = 2
    /\ wsStore.index[1][1].name = wsStore.index[1][2].name
    /\ wsStore.index[1][1].path # wsStore.index[1][2].path

\* The names are unique as long as no rename took the name of another entry
UniqueUnlessRenamedOnto ==
    (wsStore.index # NoIndex
       /\ \A k \in 1..Len(wsApplied) : ~RenamedOntoExisting(wsApplied[k]))
    => UniqueNames(wsStore.index[1])

\* add of a name that is in the index leaves one entry of the name
AddedOverExisting ==
    /\ Len(wsApplied) = 3
    /\ wsApplied[3].call.op = "add"
    /\ \E i \in 1..Len(wsApplied[3].read) : wsApplied[3].read[i].name = wsApplied[3].call.name
    /\ Len(wsApplied[3].read) = 2
    /\ wsStore.index # NoIndex
    /\ Len(wsStore.index[1]) = 2

\* ------------------------------------------------------------------------
\* Properties of the direction in which bookmarks move
\* ------------------------------------------------------------------------

\* every commit on the positive side of old is new or an ancestor of new
MovedForward(old_target, new_target) ==
    /\ as_normal(new_target) # <<>>
    /\ \A old \in added_ids(old_target) : is_ancestor(old, new_target.adds[1])

\* C40: across any sequence of bookmark advance commands, whenever the
\* target of a bookmark changes from old to new, every commit on the positive
\* side of the old target is an ancestor of, or equal to, the new target.
C40_OnlyForward ==
    [][\A name \in BookmarkNames :
         bmRepo'.view[name] # bmRepo.view[name]
         => MovedForward(bmRepo.view[name], bmRepo'.view[name])]_vars

\* Two commands that moved bookmarks, the second one a bookmark whose target
\* was conflicted, to a commit that descends from both of its sides, and a
\* bookmark moved by both
C40_Witness ==
    /\ Len(bmRepo.ops) = 2
    /\ bmLast.err = ""
    /\ bmRepo.ops[1].names \cap bmRepo.ops[2].names # {}
    /\ \E name \in bmLast.matched :
          /\ Len(bmLast.before[name].adds) = 2
          /\ bmRepo.view[name] = RefTargetNormal(bmLast.to)
          /\ MovedForward(bmLast.before[name], bmRepo.view[name])

\* The targets the operations of a sequence gave a bookmark are each an
\* ancestor of the next
ForwardAcrossOperations ==
    \A j, k \in 1..Len(bmRepo.ops) :
       \A name \in bmRepo.ops[j].names \cap bmRepo.ops[k].names :
          j < k => is_ancestor(bmRepo.ops[j].id, bmRepo.ops[k].id)

\* A command refused because one side of a conflicted target is not an
\* ancestor of the target commit, while the other side is
RefusedOneSideBehind ==
    /\ bmLast.refused # 0
    /\ Len(bmLast.before[bmLast.refused].adds) = 2
    /\ \E old \in added_ids(bmLast.before[bmLast.refused]) : is_ancestor(old, bmLast.to)
    /\ bmRepo.view = bmLast.before

=============================================================================
